---- MODULE Spec2Model ----
(***************************************************************************)
(* Model of the Inflection AI provider for the AI SDK:                     *)
(*   - convertToInflectionChatMessages (prompt -> vendor context),         *)
(*   - InflectionChatLanguageModel.getArgs / doGenerate / doStream,        *)
(*     including the TransformStream that decodes the two wire formats,    *)
(*   - generateObject (argument checks, doGenerate call, validation).      *)
(* Specifications: Spec (one doStream call), SpecGenerate (one doGenerate  *)
(* call), SpecCall (doGenerate and doStream over prompts of every kind of  *)
(* message), SpecPair (two concurrent doStream calls), SpecObject          *)
(* (generateObject), SpecUsage (one call of doStream or of doGenerate,     *)
(* with its chunks or its response).                                       *)
(* Texts (message texts, text deltas, tool-call arguments) are sequences   *)
(* of one-character strings; identifiers, enum values and error messages   *)
(* are TLA+ strings.                                                       *)
(***************************************************************************)
EXTENDS Integers, Sequences, FiniteSets, TLC

VARIABLES
    pc,                \* "idle" | "streaming" | "done" | "awaiting" | "returned" | "failed"
    modelId,           \* this.modelId
    useOpenAIEndpoint, \* doStream: const useOpenAIEndpoint
    rawPrompt,         \* doStream / doGenerate: the context built by getArgs
    promptTokens,      \* doStream / doGenerate: const promptTokens
    finishReason,      \* doStream: let finishReason
    completionTokens,  \* doStream: let completionTokens
    wire,              \* the chunks the TransformStream has consumed so far
    out,               \* the events enqueued on the controller so far
    thrown,            \* the error a rejected call propagates ("" when none)
    response,          \* doGenerate: the vendor response body received
    result,            \* doGenerate: the value the call resolved to
    options,           \* doGenerate / doStream: the call options [prompt, tools]
    request,           \* the request handed to postJsonToApi [url, body]
    streams,           \* two doStream calls on the instance: the locals, the
                       \* chunks read and the events enqueued of each
    generation         \* generateObject: its position, options and outcome

vars == <<pc, modelId, useOpenAIEndpoint, rawPrompt, promptTokens, finishReason,
          completionTokens, wire, out, thrown, response, result, options, request,
          streams, generation>>

\* ------------------------------------------------------------------ bounds
\* the number of wire chunks of one stream
MaxChunks == 3

\* the number of messages of a prompt of the call inputs
MaxMessages == 2

\* the number of wire chunks of each of two concurrent streams
MaxPairChunks == 2

\* ------------------------------------------------------- JavaScript values
\* JSON null / JavaScript null
JsNull == "null"

\* Math.floor(n / 4)
CeilDiv4_Floor(n) == n \div 4

\* n / 4 rounded to the next integer above it
CeilDiv4_Above(n) == n \div 4 + 1

\* Math.ceil(n / 4) for a string length n
CeilDiv4(n) == (n + 3) \div 4

\* the position after the run of digits "1" that starts at position i of s
RECURSIVE DigitsEnd(_, _)
DigitsEnd(s, i) ==
    IF i <= Len(s) /\ s[i] = "1" THEN DigitsEnd(s, i + 1) ELSE i

\* the number a run of n digits "1" denotes
RECURSIVE DigitsValue(_)
DigitsValue(n) ==
    IF n = 0 THEN 0 ELSE 10 * DigitsValue(n - 1) + 1

\* JSON values: a number is [t |-> "num", v |-> <<n>>], an array is
\* [t |-> "arr", v |-> <<its elements>>]
JsNum(n) == [t |-> "num", v |-> <<n>>]
JsArr(elems) == [t |-> "arr", v |-> elems]

\* the recursive descent of JSON.parse from position i of s, on texts over
\* the characters "[", "]", "," and "1"; next is the position after the value
RECURSIVE ParseValue(_, _), ParseElems(_, _, _)
ParseValue(s, i) ==
    IF i > Len(s) THEN [ok |-> FALSE]
    ELSE IF s[i] = "1"
    THEN LET j == DigitsEnd(s, i) IN
         [ok |-> TRUE, value |-> JsNum(DigitsValue(j - i)), next |-> j]
    ELSE IF s[i] = "["
    THEN IF i + 1 <= Len(s) /\ s[i + 1] = "]"
         THEN [ok |-> TRUE, value |-> JsArr(<<>>), next |-> i + 2]
         ELSE ParseElems(s, i + 1, <<>>)
    ELSE [ok |-> FALSE]

ParseElems(s, i, acc) ==
    LET r == ParseValue(s, i) IN
    IF ~r.ok THEN [ok |-> FALSE]
    ELSE IF r.next > Len(s) THEN [ok |-> FALSE]
    ELSE IF s[r.next] = "," THEN ParseElems(s, r.next + 1, Append(acc, r.value))
    ELSE IF s[r.next] = "]"
    THEN [ok |-> TRUE, value |-> JsArr(Append(acc, r.value)), next |-> r.next + 1]
    ELSE [ok |-> FALSE]

\* JSON.parse: ok = FALSE stands for the SyntaxError it throws
JSONParse(s) ==
    LET r == ParseValue(s, 1) IN
    IF r.ok /\ r.next = Len(s) + 1
    THEN [ok |-> TRUE, value |-> r.value]
    ELSE [ok |-> FALSE]

\* the decimal digits of a number made of digits "1"
RECURSIVE Digits(_)
Digits(n) ==
    IF n = 0 THEN <<>> ELSE Append(Digits(n \div 10), "1")

\* a join of the elements of an array without the separating commas
RECURSIVE StringifyElems_NoComma(_)
StringifyElems_NoComma(elems) ==
    IF elems = <<>> THEN <<>>
    ELSE IF Len(elems) = 1 THEN
        IF elems[1].t = "num" THEN Digits(elems[1].v[1])
        ELSE <<"[">> \o StringifyElems_NoComma(elems[1].v) \o <<"]">>
    ELSE StringifyElems_NoComma(<<elems[1]>>) \o StringifyElems_NoComma(Tail(elems))

\* JSON.stringify of a JSON value
RECURSIVE JSONStringify(_), StringifyElems(_)
JSONStringify(val) ==
    IF val.t = "num" THEN Digits(val.v[1])
    ELSE <<"[">> \o StringifyElems(val.v) \o <<"]">>

StringifyElems(elems) ==
    IF elems = <<>> THEN <<>>
    ELSE IF Len(elems) = 1 THEN JSONStringify(elems[1])
    ELSE JSONStringify(elems[1]) \o <<",">> \o StringifyElems(Tail(elems))

\* ------------------------------------------------------ message converter
ToolModel == "inflection_3_with_tools"
DefaultModel == "inflection_3_pi"

ToolCallsUnsupported == "Tool calls are only supported with the inflection_3_with_tools model"
ToolResultsUnsupported == "Tool results are only supported with the inflection_3_with_tools model"
ImageUnsupported == "Image content parts are not supported by Inflection AI at this time"
FileUnsupported == "File content parts are not supported by Inflection AI at this time"

\* a part loop that skips image and file parts, as the part loop of
\* convertPromptToOpenAIMessages does
RECURSIVE ConvertParts_SkipMedia(_, _, _, _)
ConvertParts_SkipMedia(parts, model, text, toolCalls) ==
    IF parts = <<>> THEN [ok |-> TRUE, text |-> text, toolCalls |-> toolCalls]
    ELSE LET part == Head(parts) IN
         CASE part.type = "text" ->
                ConvertParts_SkipMedia(Tail(parts), model, text \o part.text, toolCalls)
           [] part.type = "tool-call" ->
                IF model # ToolModel
                THEN [ok |-> FALSE, error |-> ToolCallsUnsupported]
                ELSE ConvertParts_SkipMedia(Tail(parts), model, text,
                        Append(toolCalls,
                               [id |-> part.toolCallId,
                                type |-> "function",
                                function |-> [name |-> part.toolName,
                                              arguments |-> JSONStringify(part.args)]]))
           [] part.type = "tool-result" ->
                IF model # ToolModel
                THEN [ok |-> FALSE, error |-> ToolResultsUnsupported]
                ELSE ConvertParts_SkipMedia(Tail(parts), model,
                                            JSONStringify(part.result), toolCalls)
           [] OTHER -> ConvertParts_SkipMedia(Tail(parts), model, text, toolCalls)

\* a part loop that puts each tool call in front of the ones before it
RECURSIVE ConvertParts_Prepend(_, _, _, _)
ConvertParts_Prepend(parts, model, text, toolCalls) ==
    IF parts = <<>> THEN [ok |-> TRUE, text |-> text, toolCalls |-> toolCalls]
    ELSE LET part == Head(parts) IN
         CASE part.type = "text" ->
                ConvertParts_Prepend(Tail(parts), model, text \o part.text, toolCalls)
           [] part.type = "tool-call" ->
                IF model # ToolModel
                THEN [ok |-> FALSE, error |-> ToolCallsUnsupported]
                ELSE ConvertParts_Prepend(Tail(parts), model, text,
                        <<[id |-> part.toolCallId,
                           type |-> "function",
                           function |-> [name |-> part.toolName,
                                         arguments |-> JSONStringify(part.args)]]>>
                        \o toolCalls)
           [] part.type = "tool-result" ->
                IF model # ToolModel
                THEN [ok |-> FALSE, error |-> ToolResultsUnsupported]
                ELSE ConvertParts_Prepend(Tail(parts), model,
                                          JSONStringify(part.result), toolCalls)
           [] part.type = "image" -> [ok |-> FALSE, error |-> ImageUnsupported]
           [] part.type = "file" -> [ok |-> FALSE, error |-> FileUnsupported]

\* a part loop whose tool-result parts add to the text instead of replacing it
RECURSIVE ConvertParts_AppendResult(_, _, _, _)
ConvertParts_AppendResult(parts, model, text, toolCalls) ==
    IF parts = <<>> THEN [ok |-> TRUE, text |-> text, toolCalls |-> toolCalls]
    ELSE LET part == Head(parts) IN
         CASE part.type = "text" ->
                ConvertParts_AppendResult(Tail(parts), model, text \o part.text, toolCalls)
           [] part.type = "tool-call" ->
                IF model # ToolModel
                THEN [ok |-> FALSE, error |-> ToolCallsUnsupported]
                ELSE ConvertParts_AppendResult(Tail(parts), model, text,
                        Append(toolCalls,
                               [id |-> part.toolCallId,
                                type |-> "function",
                                function |-> [name |-> part.toolName,
                                              arguments |-> JSONStringify(part.args)]]))
           [] part.type = "tool-result" ->
                IF model # ToolModel
                THEN [ok |-> FALSE, error |-> ToolResultsUnsupported]
                ELSE ConvertParts_AppendResult(Tail(parts), model,
                        text \o JSONStringify(part.result), toolCalls)
           [] part.type = "image" -> [ok |-> FALSE, error |-> ImageUnsupported]
           [] part.type = "file" -> [ok |-> FALSE, error |-> FileUnsupported]

\* the loop over the content parts of one message: text and toolCalls are the
\* accumulators; ok = FALSE carries the UnsupportedFunctionalityError thrown
RECURSIVE ConvertParts(_, _, _, _)
ConvertParts(parts, model, text, toolCalls) ==
    IF parts = <<>> THEN [ok |-> TRUE, text |-> text, toolCalls |-> toolCalls]
    ELSE LET part == Head(parts) IN
         CASE part.type = "text" ->
                ConvertParts(Tail(parts), model, text \o part.text, toolCalls)
           [] part.type = "tool-call" ->
                IF model # ToolModel
                THEN [ok |-> FALSE, error |-> ToolCallsUnsupported]
                ELSE ConvertParts(Tail(parts), model, text,
                        Append(toolCalls,
                               [id |-> part.toolCallId,
                                type |-> "function",
                                function |-> [name |-> part.toolName,
                                              arguments |-> JSONStringify(part.args)]]))
           [] part.type = "tool-result" ->
                IF model # ToolModel
                THEN [ok |-> FALSE, error |-> ToolResultsUnsupported]
                ELSE ConvertParts(Tail(parts), model, JSONStringify(part.result), toolCalls)
           [] part.type = "image" -> [ok |-> FALSE, error |-> ImageUnsupported]
           [] part.type = "file" -> [ok |-> FALSE, error |-> FileUnsupported]

\* content.find((part) => part.type === "tool-result")?.toolCallId;
\* "" stands for undefined (both are falsy where the result is used)
RECURSIVE FindToolResultId(_)
FindToolResultId(parts) ==
    IF parts = <<>> THEN ""
    ELSE IF Head(parts).type = "tool-result" THEN Head(parts).toolCallId
    ELSE FindToolResultId(Tail(parts))

\* a conversion that pushes a message whatever its text
ContextEntries_KeepEmpty(msg, model, text, toolCalls) ==
    CASE msg.role = "user" -> <<[type |-> "Human", text |-> text]>>
      [] msg.role = "assistant" -> <<[type |-> "AI", text |-> text]>>
      [] msg.role = "system" -> <<[type |-> "Instruction", text |-> text]>>
      [] msg.role = "tool" -> <<[type |-> "Tool", text |-> text]>>

\* ContextEntries without the text test of the tool case
ContextEntries_ToolUnguarded(msg, model, text, toolCalls) ==
    IF text = <<>> /\ toolCalls = <<>> THEN <<>>
    ELSE CASE msg.role = "user" -> <<[type |-> "Human", text |-> text]>>
           [] msg.role = "assistant" ->
                IF model = ToolModel /\ Len(toolCalls) > 0
                THEN <<[type |-> "AI", text |-> text, tool_calls |-> toolCalls]>>
                ELSE <<[type |-> "AI", text |-> text]>>
           [] msg.role = "system" -> <<[type |-> "Instruction", text |-> text]>>
           [] msg.role = "tool" -> <<[type |-> "Tool", text |-> text]>>

\* the entries one prompt message appends to the context, given its
\* accumulated text and tool calls
ContextEntries(msg, model, text, toolCalls) ==
    IF text = <<>> /\ toolCalls = <<>> THEN <<>>
    ELSE CASE msg.role = "user" -> <<[type |-> "Human", text |-> text]>>
           [] msg.role = "assistant" ->
                IF model = ToolModel /\ Len(toolCalls) > 0
                THEN <<[type |-> "AI", text |-> text, tool_calls |-> toolCalls]>>
                ELSE <<[type |-> "AI", text |-> text]>>
           [] msg.role = "system" -> <<[type |-> "Instruction", text |-> text]>>
           [] msg.role = "tool" ->
                IF text = <<>> THEN <<>>
                ELSE LET toolCallId ==
                            IF "string" \in DOMAIN msg.content THEN ""
                            ELSE FindToolResultId(msg.content.parts)
                     IN IF toolCallId # ""
                        THEN <<[type |-> "Tool", text |-> text, tool_call_id |-> toolCallId]>>
                        ELSE <<[type |-> "Tool", text |-> text]>>

\* the messages of UnsupportedFunctionalityError the provider throws
UnsupportedFunctionalityErrors ==
    {ToolCallsUnsupported, ToolResultsUnsupported, ImageUnsupported, FileUnsupported}

\* a conversion that returns the context built so far when a part is not
\* supported
RECURSIVE ConvertFrom_Partial(_, _, _)
ConvertFrom_Partial(prompt, model, context) ==
    IF prompt = <<>> THEN [ok |-> TRUE, context |-> context]
    ELSE LET msg == Head(prompt)
             acc == IF "string" \in DOMAIN msg.content
                    THEN [ok |-> TRUE, text |-> msg.content.string, toolCalls |-> <<>>]
                    ELSE ConvertParts(msg.content.parts, model, <<>>, <<>>)
         IN IF ~acc.ok THEN [ok |-> TRUE, context |-> context]
            ELSE ConvertFrom_Partial(Tail(prompt), model,
                     context \o ContextEntries(msg, model, acc.text, acc.toolCalls))

\* convertToInflectionChatMessages: a message's content is [string |-> text]
\* or [parts |-> <<part, ...>>]
RECURSIVE ConvertFrom(_, _, _)
ConvertFrom(prompt, model, context) ==
    IF prompt = <<>> THEN [ok |-> TRUE, context |-> context]
    ELSE LET msg == Head(prompt)
             acc == IF "string" \in DOMAIN msg.content
                    THEN [ok |-> TRUE, text |-> msg.content.string, toolCalls |-> <<>>]
                    ELSE ConvertParts(msg.content.parts, model, <<>>, <<>>)
         IN IF ~acc.ok THEN [ok |-> FALSE, error |-> acc.error]
            ELSE ConvertFrom(Tail(prompt), model,
                             context \o ContextEntries(msg, model, acc.text, acc.toolCalls))

convertToInflectionChatMessages(prompt, model) == ConvertFrom(prompt, model, <<>>)

\* a prompt length that counts the entries instead of their characters
PromptTextLength_Messages(context) == Len(context)

\* rawPrompt.map((m) => m.text).join("").length
RECURSIVE PromptTextLength(_)
PromptTextLength(context) ==
    IF context = <<>> THEN 0
    ELSE Len(Head(context).text) + PromptTextLength(Tail(context))

\* a getArgs that converts the prompt before it checks the tools
getArgs_ConvertFirst(model, tools, prompt) ==
    LET converted == convertToInflectionChatMessages(prompt, model) IN
    IF ~converted.ok THEN converted
    ELSE IF tools > 0 /\ model # ToolModel
    THEN [ok |-> FALSE, error |-> ToolCallsUnsupported]
    ELSE converted

\* getArgs: the tools check, then the conversion of the prompt; tools is the
\* number of declared tools (mode.tools?.length, 0 when absent)
getArgs(model, tools, prompt) ==
    IF tools > 0 /\ model # ToolModel
    THEN [ok |-> FALSE, error |-> ToolCallsUnsupported]
    ELSE convertToInflectionChatMessages(prompt, model)

\* the loop over the content parts of one message in
\* convertPromptToOpenAIMessages: parts of other types are skipped
RECURSIVE OpenAIParts(_, _, _)
OpenAIParts(parts, textContent, toolCalls) ==
    IF parts = <<>> THEN [content |-> textContent, toolCalls |-> toolCalls]
    ELSE LET part == Head(parts) IN
         CASE part.type = "text" ->
                OpenAIParts(Tail(parts), textContent \o part.text, toolCalls)
           [] part.type = "tool-call" ->
                OpenAIParts(Tail(parts), textContent,
                    Append(toolCalls,
                           [id |-> part.toolCallId,
                            type |-> "function",
                            function |-> [name |-> part.toolName,
                                          arguments |-> JSONStringify(part.args)]]))
           [] part.type = "tool-result" ->
                OpenAIParts(Tail(parts), JSONStringify(part.result), toolCalls)
           [] OTHER -> OpenAIParts(Tail(parts), textContent, toolCalls)

\* some part of the content is a tool-result
HasToolResult(parts) == \E i \in 1..Len(parts) : parts[i].type = "tool-result"

\* the message convertPromptToOpenAIMessages builds for one prompt message
OpenAIMessage(msg) ==
    IF "string" \in DOMAIN msg.content
    THEN [role |-> msg.role, content |-> msg.content.string]
    ELSE LET acc == OpenAIParts(msg.content.parts, <<>>, <<>>)
             base == [role |-> msg.role, content |-> acc.content]
             withCalls == IF Len(acc.toolCalls) > 0
                          THEN [role |-> msg.role, content |-> acc.content,
                                tool_calls |-> acc.toolCalls]
                          ELSE base
         IN IF msg.role = "tool" /\ HasToolResult(msg.content.parts)
            THEN IF Len(acc.toolCalls) > 0
                 THEN [role |-> msg.role, content |-> acc.content,
                       tool_calls |-> acc.toolCalls,
                       tool_call_id |-> FindToolResultId(msg.content.parts)]
                 ELSE [role |-> msg.role, content |-> acc.content,
                       tool_call_id |-> FindToolResultId(msg.content.parts)]
            ELSE withCalls

\* a conversion that leaves out the messages without content, as the vendor
\* conversion does
convertPromptToOpenAIMessages_SkipEmpty(prompt) ==
    LET kept(message) == message.content # <<>> \/ "tool_calls" \in DOMAIN message IN
    SelectSeq([i \in 1..Len(prompt) |-> OpenAIMessage(prompt[i])], kept)

\* convertPromptToOpenAIMessages: prompt.map(...)
convertPromptToOpenAIMessages(prompt) ==
    [i \in 1..Len(prompt) |-> OpenAIMessage(prompt[i])]

BaseURL == "https://inference"
StreamingURL == BaseURL \o "/streaming"
OpenAIStreamingURL == BaseURL \o "/openai/v1/chat/completions"

\* an endpoint choice that looks at the model id alone
UseOpenAIEndpoint_ModelOnly(model, tools) == model = ToolModel

\* doStream: const useOpenAIEndpoint (the mode is always "regular" here)
UseOpenAIEndpoint(model, tools) == model = ToolModel /\ tools > 0

\* doStream: the url and body handed to postJsonToApi
StreamRequest(model, tools, prompt, context) ==
    IF UseOpenAIEndpoint(model, tools)
    THEN [url |-> OpenAIStreamingURL,
          body |-> [model |-> model, stream |-> TRUE,
                    messages |-> convertPromptToOpenAIMessages(prompt),
                    tools |-> tools]]
    ELSE [url |-> StreamingURL,
          body |-> [config |-> model, context |-> context, tools |-> tools,
                    stream |-> TRUE]]

\* doGenerate: the url and body handed to postJsonToApi
GenerateRequest(model, tools, context) ==
    [url |-> BaseURL,
     body |-> [config |-> model, context |-> context, tools |-> tools]]

\* ---------------------------------------------------------- wire schemas
HasKeys(rec, keys) == keys \subseteq DOMAIN rec

\* the tool-call object schema shared by the response and chunk schemas
ToolCallSchemaOk(call) ==
    /\ HasKeys(call, {"id", "type", "function"})
    /\ call.type = "function"
    /\ HasKeys(call.function, {"name", "arguments"})

ToolCallArraySchemaOk(calls) ==
    \A i \in 1..Len(calls) : ToolCallSchemaOk(calls[i])

\* inflectionStreamChunkSchema.parse succeeds
inflectionStreamChunkSchemaOk(value) ==
    /\ HasKeys(value, {"created", "idx", "text"})
    /\ "tool_calls" \in DOMAIN value => ToolCallArraySchemaOk(value.tool_calls)

FinishReasonEnum == {"stop", "length", "content-filter", "tool_calls"}

OpenAIChoiceSchemaOk(choice) ==
    /\ HasKeys(choice, {"index", "delta", "finish_reason"})
    /\ "tool_calls" \in DOMAIN choice.delta =>
            ToolCallArraySchemaOk(choice.delta.tool_calls)
    /\ choice.finish_reason \in FinishReasonEnum \cup {JsNull}

\* openAIStreamChunkSchema.parse succeeds
openAIStreamChunkSchemaOk(value) ==
    /\ HasKeys(value, {"id", "object", "created", "model", "choices"})
    /\ value.object = "chat.completion.chunk"
    /\ \A i \in 1..Len(value.choices) : OpenAIChoiceSchemaOk(value.choices[i])

\* --------------------------------------------------------- stream decoder
ParseResponseError == "Failed to parse response"
ToolCallError == "Failed to process tool call"

ErrorEvent(error) == [type |-> "error", error |-> error]
TextDeltaEvent(text) == [type |-> "text-delta", textDelta |-> text]
MetadataEvent(created) == [type |-> "response-metadata", timestamp |-> created * 1000]
ToolCallDeltaEvent(call) ==
    [type |-> "tool-call-delta", toolCallType |-> "function",
     toolCallId |-> call.id, toolName |-> call.function.name,
     argsTextDelta |-> call.function.arguments]
ToolCallEvent(call, args) ==
    [type |-> "tool-call", toolCallType |-> "function",
     toolCallId |-> call.id, toolName |-> call.function.name, args |-> args]
FinishEvent(reason, prompt, completion) ==
    [type |-> "finish", finishReason |-> reason,
     usage |-> [promptTokens |-> prompt, completionTokens |-> completion]]

\* an entry whose arguments are parsed before its tool-call-delta is enqueued
OpenAIToolCallEvents_ParseFirst(call) ==
    LET parsed == JSONParse(call.function.arguments) IN
    IF parsed.ok
    THEN <<ToolCallEvent(call, parsed.value), ToolCallDeltaEvent(call)>>
    ELSE <<ErrorEvent(ToolCallError)>>

\* the events the OpenAI branch enqueues for one entry of delta.tool_calls
OpenAIToolCallEvents(call) ==
    LET parsed == JSONParse(call.function.arguments) IN
    IF parsed.ok
    THEN <<ToolCallDeltaEvent(call), ToolCallEvent(call, parsed.value)>>
    ELSE <<ToolCallDeltaEvent(call), ErrorEvent(ToolCallError)>>

\* an entry whose decode failure is swallowed
InflectionToolCallEvents_Swallow(call) ==
    LET parsed == JSONParse(call.function.arguments) IN
    IF parsed.ok
    THEN <<ToolCallEvent(call, parsed.value)>>
    ELSE <<>>

\* the events the Inflection branch enqueues for one entry of tool_calls
InflectionToolCallEvents(call) ==
    LET parsed == JSONParse(call.function.arguments) IN
    IF parsed.ok
    THEN <<ToolCallEvent(call, parsed.value)>>
    ELSE <<ErrorEvent(ToolCallError)>>

\* for (const call of calls) { ... } with the per-entry events of the format
RECURSIVE ToolCallsEvents(_, _)
ToolCallsEvents(calls, openai) ==
    IF calls = <<>> THEN <<>>
    ELSE (IF openai THEN OpenAIToolCallEvents(Head(calls))
                    ELSE InflectionToolCallEvents(Head(calls)))
         \o ToolCallsEvents(Tail(calls), openai)

\* a mapping that passes every finish_reason through unchanged
MapFinishReason_Raw(reason) == reason

\* the finishReason assigned from a non-null choice.finish_reason
MapFinishReason(reason) ==
    IF reason = "tool_calls" THEN "tool-calls"
    ELSE IF reason = "content-filter" THEN "content-filter"
    ELSE reason

\* a catch that also marks the stream as ended in error
CaughtParseError_SetsReason(st) ==
    [st EXCEPT !.out = Append(@, ErrorEvent(ParseResponseError)),
               !.finishReason = "error"]

\* the decoder state after an exception reached the outer catch
CaughtParseError(st) ==
    [st EXCEPT !.out = Append(@, ErrorEvent(ParseResponseError))]

\* an OpenAI branch whose tool-call handling comes after the finish_reason
\* assignment
TransformOpenAI_CallsWin(value, st) ==
    IF ~openAIStreamChunkSchemaOk(value) THEN CaughtParseError(st)
    ELSE IF Len(value.choices) = 0 THEN CaughtParseError(st)
    ELSE LET choice == value.choices[1]
             delta == choice.delta
             hasContent == "content" \in DOMAIN delta /\ delta.content # <<>>
             hasCalls == "tool_calls" \in DOMAIN delta /\ Len(delta.tool_calls) > 0
             textEvents == IF hasContent THEN <<TextDeltaEvent(delta.content)>> ELSE <<>>
             callEvents == IF hasCalls THEN ToolCallsEvents(delta.tool_calls, TRUE) ELSE <<>>
             afterCalls == IF hasCalls THEN "tool-calls" ELSE st.finishReason
         IN [out |-> st.out \o textEvents \o callEvents,
             finishReason |->
                IF hasCalls THEN "tool-calls"
                ELSE IF choice.finish_reason # JsNull
                THEN MapFinishReason(choice.finish_reason)
                ELSE st.finishReason,
             completionTokens |->
                IF hasContent
                THEN st.completionTokens + CeilDiv4(Len(delta.content))
                ELSE st.completionTokens]

\* the OpenAI branch of transform on a chunk value; st is the decoder state
\* [out, finishReason, completionTokens]
TransformOpenAI(value, st) ==
    IF ~openAIStreamChunkSchemaOk(value) THEN CaughtParseError(st)
    ELSE IF Len(value.choices) = 0 THEN CaughtParseError(st)
    ELSE LET choice == value.choices[1]
             delta == choice.delta
             hasContent == "content" \in DOMAIN delta /\ delta.content # <<>>
             hasCalls == "tool_calls" \in DOMAIN delta /\ Len(delta.tool_calls) > 0
             textEvents == IF hasContent THEN <<TextDeltaEvent(delta.content)>> ELSE <<>>
             callEvents == IF hasCalls THEN ToolCallsEvents(delta.tool_calls, TRUE) ELSE <<>>
             afterCalls == IF hasCalls THEN "tool-calls" ELSE st.finishReason
         IN [out |-> st.out \o textEvents \o callEvents,
             finishReason |->
                IF choice.finish_reason # JsNull
                THEN MapFinishReason(choice.finish_reason)
                ELSE afterCalls,
             completionTokens |->
                IF hasContent
                THEN st.completionTokens + CeilDiv4(Len(delta.content))
                ELSE st.completionTokens]

\* an Inflection branch that enqueues the tool calls before the text
TransformInflection_CallsFirst(value, st) ==
    IF ~inflectionStreamChunkSchemaOk(value) THEN CaughtParseError(st)
    ELSE LET hasCalls == "tool_calls" \in DOMAIN value /\ Len(value.tool_calls) > 0
             metaEvents == IF value.idx = 0 THEN <<MetadataEvent(value.created)>> ELSE <<>>
             textEvents == IF value.text # <<>> THEN <<TextDeltaEvent(value.text)>> ELSE <<>>
             callEvents == IF hasCalls THEN ToolCallsEvents(value.tool_calls, FALSE) ELSE <<>>
         IN [out |-> st.out \o metaEvents \o callEvents \o textEvents,
             finishReason |-> IF hasCalls THEN "tool-calls" ELSE st.finishReason,
             completionTokens |-> st.completionTokens + CeilDiv4(Len(value.text))]

\* an Inflection branch that sets finishReason from each chunk alone
TransformInflection_ResetReason(value, st) ==
    IF ~inflectionStreamChunkSchemaOk(value) THEN CaughtParseError(st)
    ELSE LET hasCalls == "tool_calls" \in DOMAIN value /\ Len(value.tool_calls) > 0
             metaEvents == IF value.idx = 0 THEN <<MetadataEvent(value.created)>> ELSE <<>>
             textEvents == IF value.text # <<>> THEN <<TextDeltaEvent(value.text)>> ELSE <<>>
             callEvents == IF hasCalls THEN ToolCallsEvents(value.tool_calls, FALSE) ELSE <<>>
         IN [out |-> st.out \o metaEvents \o textEvents \o callEvents,
             finishReason |-> IF hasCalls THEN "tool-calls" ELSE "stop",
             completionTokens |-> st.completionTokens + CeilDiv4(Len(value.text))]

\* the Inflection branch of transform on a chunk value
TransformInflection(value, st) ==
    IF ~inflectionStreamChunkSchemaOk(value) THEN CaughtParseError(st)
    ELSE LET hasCalls == "tool_calls" \in DOMAIN value /\ Len(value.tool_calls) > 0
             metaEvents == IF value.idx = 0 THEN <<MetadataEvent(value.created)>> ELSE <<>>
             textEvents == IF value.text # <<>> THEN <<TextDeltaEvent(value.text)>> ELSE <<>>
             callEvents == IF hasCalls THEN ToolCallsEvents(value.tool_calls, FALSE) ELSE <<>>
         IN [out |-> st.out \o metaEvents \o textEvents \o callEvents,
             finishReason |-> IF hasCalls THEN "tool-calls" ELSE st.finishReason,
             completionTokens |-> st.completionTokens + CeilDiv4(Len(value.text))]

\* transform(chunk, controller)
transform(chunk, openai, st) ==
    IF ~chunk.success THEN [st EXCEPT !.out = Append(@, ErrorEvent(chunk.error))]
    ELSE IF openai THEN TransformOpenAI(chunk.value, st)
    ELSE TransformInflection(chunk.value, st)

\* a flush that enqueues nothing
flush_NoFinish(reason, prompt, completion) == <<>>

\* flush(controller): the events it enqueues
flush(reason, prompt, completion) == <<FinishEvent(reason, prompt, completion)>>

\* ------------------------------------------------------ response decoder
\* a JSON null in the place of the tool_calls array
JsNullArray == <<[null |-> TRUE]>>

ValidationError == "Type validation failed"
SyntaxError == "SyntaxError"

\* createJsonResponseHandler(inflectionChatResponseSchema): the validated
\* response, null tool_calls turned into [], or the validation failure
inflectionChatResponseSchema(body) ==
    IF ~HasKeys(body, {"created", "text"}) THEN [ok |-> FALSE]
    ELSE IF "tool_calls" \notin DOMAIN body
    THEN [ok |-> TRUE, value |-> [created |-> body.created, text |-> body.text]]
    ELSE IF body.tool_calls = JsNullArray
    THEN [ok |-> TRUE,
          value |-> [created |-> body.created, text |-> body.text, tool_calls |-> <<>>]]
    ELSE IF ~ToolCallArraySchemaOk(body.tool_calls) THEN [ok |-> FALSE]
    ELSE [ok |-> TRUE,
          value |-> [created |-> body.created, text |-> body.text,
                     tool_calls |-> body.tool_calls]]

\* a decode that drops the tool calls whose arguments do not parse
RECURSIVE DecodeToolCalls_SkipBad(_)
DecodeToolCalls_SkipBad(calls) ==
    IF calls = <<>> THEN [ok |-> TRUE, toolCalls |-> <<>>]
    ELSE LET call == Head(calls)
             parsed == JSONParse(call.function.arguments)
             rest == DecodeToolCalls_SkipBad(Tail(calls))
         IN IF ~parsed.ok THEN rest
            ELSE [ok |-> TRUE,
                  toolCalls |-> <<[toolCallType |-> "function",
                                   toolCallId |-> call.id,
                                   toolName |-> call.function.name,
                                   args |-> parsed.value]>> \o rest.toolCalls]

\* response.tool_calls.map(call => ({..., args: JSON.parse(...)})): the first
\* arguments text that does not parse throws out of the map
RECURSIVE DecodeToolCalls(_)
DecodeToolCalls(calls) ==
    IF calls = <<>> THEN [ok |-> TRUE, toolCalls |-> <<>>]
    ELSE LET call == Head(calls)
             parsed == JSONParse(call.function.arguments)
         IN IF ~parsed.ok THEN [ok |-> FALSE]
            ELSE LET rest == DecodeToolCalls(Tail(calls)) IN
                 IF ~rest.ok THEN [ok |-> FALSE]
                 ELSE [ok |-> TRUE,
                       toolCalls |-> <<[toolCallType |-> "function",
                                        toolCallId |-> call.id,
                                        toolName |-> call.function.name,
                                        args |-> parsed.value]>> \o rest.toolCalls]

\* a finish reason decided by the presence of the array, not by its length
GenerateFinishReason_Presence(resp) ==
    IF "tool_calls" \in DOMAIN resp THEN "tool-calls" ELSE "stop"

\* response.tool_calls?.length ? "tool-calls" : "stop"
GenerateFinishReason(resp) ==
    IF "tool_calls" \in DOMAIN resp /\ Len(resp.tool_calls) > 0
    THEN "tool-calls" ELSE "stop"

\* the part of doGenerate after the response arrived: the value returned
\* (toolCalls is left out when response.tool_calls is undefined) or the error
DecodeResponse(resp, prompt) ==
    LET usage == [promptTokens |-> prompt,
                  completionTokens |-> CeilDiv4(Len(resp.text))]
    IN IF "tool_calls" \notin DOMAIN resp
       THEN [ok |-> TRUE,
             value |-> [text |-> resp.text,
                        finishReason |-> GenerateFinishReason(resp),
                        usage |-> usage]]
       ELSE LET decoded == DecodeToolCalls(resp.tool_calls) IN
            IF ~decoded.ok THEN [ok |-> FALSE, error |-> SyntaxError]
            ELSE [ok |-> TRUE,
                  value |-> [text |-> resp.text,
                             finishReason |-> GenerateFinishReason(resp),
                             usage |-> usage,
                             toolCalls |-> decoded.toolCalls]]

\* --------------------------------------------------------- generateObject
\* the options of generateObject are a record with the keys model and prompt
\* and, when given, output, schema and enum; model is the class of the model
InflectionClass == "InflectionChatLanguageModel"

\* output = "object" by default
OutputOf(opts) == IF "output" \in DOMAIN opts THEN opts.output ELSE "object"

\* !enumValues?.length
NoEnumValues(opts) == "enum" \notin DOMAIN opts \/ Len(opts.enum) = 0

\* !schema
NoSchema(opts) == "schema" \notin DOMAIN opts

ModelMustBeInflection == "Model must be an Inflection AI model"
EnumValuesRequired == "Enum values must be provided when using enum output strategy"
SchemaRequired == "Schema must be provided when using object or array output strategy"

\* argument checks that look at the model last
ArgumentError_ModelLast(opts) ==
    IF OutputOf(opts) = "enum" /\ NoEnumValues(opts) THEN EnumValuesRequired
    ELSE IF OutputOf(opts) \in {"object", "array"} /\ NoSchema(opts) THEN SchemaRequired
    ELSE IF opts.model # InflectionClass THEN ModelMustBeInflection
    ELSE ""

\* the argument checks of generateObject: the message of the Error thrown,
\* "" when the options pass
ArgumentError(opts) ==
    IF opts.model # InflectionClass THEN ModelMustBeInflection
    ELSE IF OutputOf(opts) = "enum" /\ NoEnumValues(opts) THEN EnumValuesRequired
    ELSE IF OutputOf(opts) \in {"object", "array"} /\ NoSchema(opts) THEN SchemaRequired
    ELSE ""

\* the system message of the output strategy, one element per clause of the
\* instruction (only its length is used, for the token estimate)
SystemMessage(opts) ==
    CASE OutputOf(opts) = "object" ->
            IF NoSchema(opts) THEN <<"respond", "JSON object", "only JSON">>
            ELSE <<"respond", "JSON object", "schema", opts.schema, "only JSON">>
      [] OutputOf(opts) = "array" ->
            IF NoSchema(opts) THEN <<"respond", "JSON array", "only JSON">>
            ELSE <<"respond", "JSON array", "schema", opts.schema, "only JSON">>
      [] OutputOf(opts) = "enum" -> <<"respond", "one of">> \o opts.enum \o <<"only value">>
      [] OutputOf(opts) = "no-schema" -> <<"respond", "JSON", "only JSON">>

\* fullPrompt: the system message in front of the prompt
FullPrompt(opts) ==
    <<[role |-> "system", content |-> [string |-> SystemMessage(opts)]]>> \o opts.prompt

\* String.prototype.trim on texts whose only white space is " "
RECURSIVE Trim(_)
Trim(text) ==
    IF text = <<>> THEN text
    ELSE IF Head(text) = " " THEN Trim(Tail(text))
    ELSE IF text[Len(text)] = " " THEN Trim(SubSeq(text, 1, Len(text) - 1))
    ELSE text

\* a JavaScript string as a value
JsStr(text) == [t |-> "str", v |-> text]

\* schema.parse succeeds: the schemas are z.number() and z.array(z.number())
SchemaOk(schema, val) ==
    CASE schema = "z.number()" -> val.t = "num"
      [] schema = "z.array(z.number())" ->
            val.t = "arr" /\ \A i \in 1..Len(val.v) : val.v[i].t = "num"

\* z.array(schema).parse succeeds
ArraySchemaOk(schema, val) ==
    val.t = "arr" /\ \A i \in 1..Len(val.v) : SchemaOk(schema, val.v[i])

\* a failure thrown as a plain Error
NoContentGenerated_PlainError(message) == [name |-> "Error", message |-> message]

NoContentGenerated(message) == [name |-> "NoContentGeneratedError", message |-> message]

\* generateObject after its doGenerate call settled: settled is "returned"
\* with the value doGenerate resolved to, or "failed" with the error it
\* threw; the outcome is the object returned or the NoContentGeneratedError
AfterGenerate(opts, settled, value, error) ==
    IF settled = "failed"
    THEN [ok |-> FALSE, thrown |-> NoContentGenerated(error)]
    ELSE IF value.text = <<>>
    THEN [ok |-> FALSE, thrown |-> NoContentGenerated("No content was generated")]
    ELSE LET isEnum == OutputOf(opts) = "enum"
             json == JSONParse(value.text)
         IN IF ~isEnum /\ ~json.ok
            THEN [ok |-> FALSE, thrown |-> NoContentGenerated("Failed to parse JSON")]
            ELSE LET parsedResponse == IF isEnum THEN JsStr(Trim(value.text))
                                       ELSE json.value
                 IN IF ~NoSchema(opts)
                       /\ ~(IF OutputOf(opts) = "array"
                            THEN ArraySchemaOk(opts.schema, parsedResponse)
                            ELSE SchemaOk(opts.schema, parsedResponse))
                    THEN [ok |-> FALSE,
                          thrown |-> NoContentGenerated("Schema validation failed")]
                    ELSE IF isEnum
                            /\ ~(\E i \in 1..Len(opts.enum) :
                                    opts.enum[i] = parsedResponse.v)
                    THEN [ok |-> FALSE,
                          thrown |-> NoContentGenerated("Invalid enum value")]
                    ELSE [ok |-> TRUE,
                          value |-> [object |-> parsedResponse, usage |-> value.usage]]

\* ---------------------------------------------------------------- inputs
Hello == <<"H", "e", "l", "l", "o">>
Hi == <<"H", "i">>

\* argument texts: a complete JSON text, and two fragments of it
ArgsWhole == <<"[", "1", "]">>
ArgsOpen == <<"[">>
ArgsRest == <<"1", "]">>

WireCall(id, arguments) ==
    [id |-> id, type |-> "function",
     function |-> [name |-> "get_weather", arguments |-> arguments]]

ModelIds == {DefaultModel, ToolModel}

\* the number of tools a call declares
ToolCounts == {0, 1}

Prompts ==
    { <<[role |-> "user", content |-> [parts |-> <<[type |-> "text", text |-> Hello]>>]]>>,
      <<[role |-> "system", content |-> [string |-> Hi]],
        [role |-> "user", content |-> [parts |-> <<[type |-> "text", text |-> <<>>]>>]]>>,
      <<[role |-> "assistant",
         content |-> [parts |-> <<[type |-> "tool-call", toolCallId |-> "call_1",
                                   toolName |-> "get_weather",
                                   args |-> JsArr(<<JsNum(1)>>)]>>]]>> }

\* the prompts of the streaming calls
StreamPrompts ==
    { prompt \in Prompts : prompt[1].role = "user" }

\* every model id of InflectionChatModelId
AllModelIds == {DefaultModel, "inflection_3_productivity", ToolModel}

\* content parts of a prompt message
TextPart(text) == [type |-> "text", text |-> text]
ToolCallPart(id, args) ==
    [type |-> "tool-call", toolCallId |-> id, toolName |-> "get_weather", args |-> args]
ToolResultPart(id, res) ==
    [type |-> "tool-result", toolCallId |-> id, toolName |-> "get_weather", result |-> res]

\* the argument values of the tool-call parts
ArgValues ==
    { JsNum(1), JsNum(11), JsArr(<<>>), JsArr(<<JsNum(1), JsNum(11)>>),
      JsArr(<<JsArr(<<JsNum(1)>>), JsArr(<<>>)>>) }

\* the messages the call prompts are made of: text-only messages of every
\* role (some of them empty), messages with tool calls and tool results,
\* and messages with an image or a file part
TextMessages ==
    { [role |-> "user", content |-> [parts |-> <<TextPart(Hello)>>]],
      [role |-> "user", content |-> [parts |-> <<TextPart(<<>>)>>]],
      [role |-> "system", content |-> [string |-> Hi]],
      [role |-> "assistant", content |-> [parts |-> <<TextPart(Hi), TextPart(Hello)>>]],
      [role |-> "assistant", content |-> [string |-> <<>>]],
      [role |-> "tool", content |-> [string |-> Hi]],
      [role |-> "tool", content |-> [parts |-> <<>>]] }

ToolMessages ==
    { [role |-> "assistant", content |-> [parts |-> <<ToolCallPart("call_1", args)>>]] :
        args \in ArgValues }
    \cup
    { [role |-> "assistant",
       content |-> [parts |-> <<TextPart(Hi), ToolCallPart("call_1", JsArr(<<JsNum(1)>>)),
                                ToolCallPart("call_2", JsNum(1))>>]],
      [role |-> "user",
       content |-> [parts |-> <<ToolCallPart("call_1", JsArr(<<JsNum(1)>>))>>]],
      [role |-> "user",
       content |-> [parts |-> <<TextPart(Hi), ToolCallPart("call_1", JsNum(1))>>]],
      [role |-> "tool",
       content |-> [parts |-> <<ToolResultPart("call_1", JsArr(<<JsNum(1)>>))>>]],
      [role |-> "tool",
       content |-> [parts |-> <<ToolResultPart("call_1", JsNum(1)),
                                ToolResultPart("call_2", JsArr(<<>>))>>]],
      [role |-> "user",
       content |-> [parts |-> <<TextPart(Hi), ToolResultPart("call_1", JsNum(11))>>]],
      [role |-> "tool",
       content |-> [parts |-> <<TextPart(Hi), ToolResultPart("call_1", JsArr(<<JsNum(1)>>)),
                                TextPart(Hello)>>]],
      [role |-> "tool",
       content |-> [parts |-> <<ToolCallPart("call_1", JsNum(1))>>]] }

MediaMessages ==
    { [role |-> "user", content |-> [parts |-> <<TextPart(Hi), [type |-> "image"]>>]],
      [role |-> "assistant", content |-> [parts |-> <<[type |-> "file"]>>]],
      [role |-> "tool",
       content |-> [parts |-> <<ToolResultPart("call_1", JsNum(1)), [type |-> "image"]>>]],
      [role |-> "user",
       content |-> [parts |-> <<ToolCallPart("call_1", JsNum(1)), [type |-> "file"]>>]] }

CallMessages == TextMessages \cup ToolMessages \cup MediaMessages

\* the prompts of the calls: one to MaxMessages messages
CallPrompts ==
    UNION { [1..n -> CallMessages] : n \in 1..MaxMessages }

\* the number of tools a call declares (0: an empty or absent list)
CallToolCounts == {0, 1, 2}

\* the response bodies in which the vendor sends back the tool calls of one
\* entry of the request context
EchoBodies(context) ==
    { [created |-> 17, text |-> context[i].text, tool_calls |-> context[i].tool_calls] :
        i \in { j \in 1..Len(context) : "tool_calls" \in DOMAIN context[j] } }

\* a chunk the event-source parser could not parse as JSON
UnparsedChunk == [success |-> FALSE, error |-> "JSONParseError"]

OpenAIValue(choices) ==
    [id |-> "1", object |-> "chat.completion.chunk", created |-> 17,
     model |-> ToolModel, choices |-> choices]

OpenAIChunk(delta, reason) ==
    [success |-> TRUE,
     value |-> OpenAIValue(<<[index |-> 0, delta |-> delta, finish_reason |-> reason]>>)]

OpenAIDeltas ==
    { [content |-> Hello], [content |-> <<>>],
      [tool_calls |-> <<>>],
      [tool_calls |-> <<WireCall("call_1", ArgsOpen)>>],
      [tool_calls |-> <<WireCall("call_1", ArgsRest)>>],
      [tool_calls |-> <<WireCall("call_1", ArgsOpen), WireCall("call_2", ArgsWhole)>>],
      [content |-> Hi, tool_calls |-> <<WireCall("call_2", ArgsWhole)>>] }

OpenAIChunks ==
    { OpenAIChunk(delta, JsNull) : delta \in OpenAIDeltas }
    \cup { OpenAIChunk([tool_calls |-> <<WireCall("call_1", ArgsWhole)>>], reason) :
              reason \in FinishReasonEnum \cup {JsNull} }
    \cup { OpenAIChunk(<<>>, "stop") }
    \cup { UnparsedChunk,
           [success |-> TRUE, value |-> OpenAIValue(<<>>)],
           [success |-> TRUE,
            value |-> OpenAIValue(<<[index |-> 0, delta |-> [content |-> Hi]]>>)],
           OpenAIChunk([content |-> Hi], "function_call") }

InflectionChunk(idx, text) ==
    [success |-> TRUE, value |-> [created |-> 17, idx |-> idx, text |-> text]]

InflectionToolChunk(idx, text, calls) ==
    [success |-> TRUE,
     value |-> [created |-> 17, idx |-> idx, text |-> text, tool_calls |-> calls]]

InflectionChunks ==
    { InflectionChunk(idx, text) : idx \in {0, 1}, text \in {<<>>, Hello} }
    \cup { InflectionChunk(1, Hi) }
    \cup { InflectionToolChunk(1, <<>>, calls) :
              calls \in { <<>>,
                          <<WireCall("call_1", ArgsWhole)>>,
                          <<WireCall("call_1", ArgsOpen)>>,
                          <<WireCall("call_1", ArgsOpen), WireCall("call_2", ArgsWhole)>>,
                          <<WireCall("call_1", ArgsWhole), WireCall("call_2", ArgsRest)>> } }
    \cup { InflectionToolChunk(0, Hi, <<WireCall("call_2", ArgsWhole)>>) }
    \cup { UnparsedChunk,
           [success |-> TRUE, value |-> [created |-> 17, idx |-> 1]],
           [success |-> TRUE,
            value |-> [created |-> 17, idx |-> 1, text |-> Hi,
                       tool_calls |-> <<[id |-> "call_1", type |-> "retrieval",
                                         function |-> [name |-> "get_weather",
                                                       arguments |-> ArgsWhole]]>>]] }

ResponseBodies ==
    { [created |-> 17, text |-> text] : text \in {<<>>, Hi, Hello} }
    \cup { [created |-> 17, text |-> text, tool_calls |-> calls] :
              text \in {<<>>, Hi, Hello},
              calls \in { JsNullArray, <<>>,
                          <<WireCall("call_1", ArgsWhole)>>,
                          <<WireCall("call_1", ArgsOpen)>>,
                          <<WireCall("call_1", ArgsWhole), WireCall("call_2", <<"1">>)>>,
                          <<WireCall("call_1", ArgsWhole), WireCall("call_2", ArgsRest)>>,
                          <<WireCall("call_1", ArgsOpen), WireCall("call_2", ArgsWhole)>> } }
    \cup { [created |-> 17],
           [created |-> 17, text |-> Hi,
            tool_calls |-> <<[id |-> "call_1", type |-> "function"]>>] }

\* the two concurrent doStream calls
Calls == {1, 2}

\* the chunks of the concurrent streams, in each wire format
PairChunks(openai) ==
    IF openai
    THEN { OpenAIChunk([content |-> Hello], JsNull),
           OpenAIChunk([tool_calls |-> <<WireCall("call_1", ArgsWhole)>>], JsNull),
           OpenAIChunk([content |-> Hi], "length") }
    ELSE { InflectionChunk(0, Hello),
           InflectionToolChunk(1, Hi, <<WireCall("call_1", ArgsWhole)>>),
           UnparsedChunk }

\* the options of the generateObject calls
ObjectPrompts ==
    { <<[role |-> "user", content |-> [parts |-> <<TextPart(Hello)>>]]>>,
      <<[role |-> "user", content |-> [parts |-> <<TextPart(Hi), [type |-> "image"]>>]]>> }

\* the record r with the key k set to v
WithKey(r, k, v) == [x \in DOMAIN r \cup {k} |-> IF x = k THEN v ELSE r[x]]

\* the records of a set, each one as it is and with the key set to each value
Optional(records, k, values) ==
    records \cup { WithKey(r, k, v) : r \in records, v \in values }

ObjectOptions ==
    Optional(
        Optional(
            Optional({ [model |-> m, prompt |-> p] :
                         m \in {InflectionClass, "OtherLanguageModel"},
                         p \in ObjectPrompts },
                     "output", {"object", "array", "enum", "no-schema"}),
            "schema", {"z.number()", "z.array(z.number())"}),
        "enum", { <<>>, <<Hi, Hello>> })

\* the response bodies of the doGenerate call of generateObject
ObjectBodies ==
    { [created |-> 17, text |-> text] :
        text \in { <<>>, <<"1">>, <<"[", "1", ",", "1", "]">>, <<"[", "[", "1", "]", "]">>,
                   <<"[">>, Hi, <<" ", "H", "i", " ">>, <<"H", "i", "!">> } }
    \cup { [created |-> 17] }

\* ----------------------------------------------------------- the machine
\* the state after the construction of a model with one of the given ids
InitFor(models) ==
    /\ pc = "idle"
    /\ modelId \in models
    /\ useOpenAIEndpoint = FALSE
    /\ rawPrompt = <<>>
    /\ promptTokens = 0
    /\ finishReason = "stop"
    /\ completionTokens = 0
    /\ wire = <<>>
    /\ out = <<>>
    /\ thrown = ""
    /\ response = <<>>
    /\ result = <<>>
    /\ options = <<>>
    /\ request = <<>>
    /\ streams = [c \in Calls |->
                    [pc |-> "idle", useOpenAIEndpoint |-> FALSE, promptTokens |-> 0,
                     finishReason |-> "stop", completionTokens |-> 0,
                     wire |-> <<>>, out |-> <<>>]]
    /\ generation = [pc |-> "idle"]

Init == InitFor(ModelIds)

\* doStream up to the creation of the TransformStream
DoStream(tools, prompt) ==
    /\ pc = "idle"
    /\ LET args == getArgs(modelId, tools, prompt) IN
       IF ~args.ok
       THEN /\ pc' = "failed"
            /\ thrown' = args.error
            /\ UNCHANGED <<useOpenAIEndpoint, rawPrompt, promptTokens, request>>
       ELSE /\ pc' = "streaming"
            /\ useOpenAIEndpoint' = UseOpenAIEndpoint(modelId, tools)
            /\ rawPrompt' = args.context
            /\ request' = StreamRequest(modelId, tools, prompt, args.context)
            /\ promptTokens' = CeilDiv4(PromptTextLength(args.context))
            /\ UNCHANGED thrown
    /\ options' = [prompt |-> prompt, tools |-> tools]
    /\ finishReason' = "stop"
    /\ completionTokens' = 0
    /\ UNCHANGED <<modelId, wire, out, response, result, streams, generation>>

\* the chunks a response in the stream's wire format is made of
WireChunks(openai) == IF openai THEN OpenAIChunks ELSE InflectionChunks

\* the TransformStream's transform on the next chunk of the response
Transform(chunk) ==
    /\ pc = "streaming"
    /\ chunk \in WireChunks(useOpenAIEndpoint)
    /\ Len(wire) < MaxChunks
    /\ LET st == transform(chunk, useOpenAIEndpoint,
                           [out |-> out, finishReason |-> finishReason,
                            completionTokens |-> completionTokens])
       IN /\ out' = st.out
          /\ finishReason' = st.finishReason
          /\ completionTokens' = st.completionTokens
    /\ wire' = Append(wire, chunk)
    /\ UNCHANGED <<pc, modelId, useOpenAIEndpoint, rawPrompt, promptTokens,
                   thrown, response, result, options, request, streams, generation>>

\* the TransformStream's flush, once the response has no more chunks
Flush ==
    /\ pc = "streaming"
    /\ out' = out \o flush(finishReason, promptTokens, completionTokens)
    /\ pc' = "done"
    /\ UNCHANGED <<modelId, useOpenAIEndpoint, rawPrompt, promptTokens, finishReason,
                   completionTokens, wire, thrown, response, result, options, request, streams, generation>>

NextStream ==
    \/ \E tools \in ToolCounts, prompt \in StreamPrompts : DoStream(tools, prompt)
    \/ \E chunk \in OpenAIChunks \cup InflectionChunks : Transform(chunk)
    \/ Flush

Spec == Init /\ [][NextStream]_vars

\* doGenerate up to the request
doGenerate(tools, prompt) ==
    /\ pc = "idle"
    /\ LET args == getArgs(modelId, tools, prompt) IN
       IF ~args.ok
       THEN /\ pc' = "failed"
            /\ thrown' = args.error
            /\ UNCHANGED <<rawPrompt, promptTokens, request>>
       ELSE /\ pc' = "awaiting"
            /\ rawPrompt' = args.context
            /\ request' = GenerateRequest(modelId, tools, args.context)
            /\ promptTokens' = CeilDiv4(PromptTextLength(args.context))
            /\ UNCHANGED thrown
    /\ options' = [prompt |-> prompt, tools |-> tools]
    /\ UNCHANGED <<modelId, useOpenAIEndpoint, finishReason, completionTokens,
                   wire, out, response, result, streams>>

\* a call of doGenerate by the application
DoGenerate(tools, prompt) ==
    /\ doGenerate(tools, prompt)
    /\ UNCHANGED generation

\* doGenerate from the arrival of the response body to its return or throw
ReceiveResponse(body) ==
    /\ pc = "awaiting"
    /\ response' = body
    /\ LET validated == inflectionChatResponseSchema(body) IN
       IF ~validated.ok
       THEN pc' = "failed" /\ thrown' = ValidationError /\ UNCHANGED result
       ELSE LET decoded == DecodeResponse(validated.value, promptTokens) IN
            IF ~decoded.ok
            THEN pc' = "failed" /\ thrown' = decoded.error /\ UNCHANGED result
            ELSE pc' = "returned" /\ result' = decoded.value /\ UNCHANGED thrown
    /\ UNCHANGED <<modelId, useOpenAIEndpoint, rawPrompt, promptTokens, finishReason,
                   completionTokens, wire, out, options, request, streams, generation>>

NextGenerate ==
    \/ \E tools \in ToolCounts, prompt \in Prompts : DoGenerate(tools, prompt)
    \/ \E body \in ResponseBodies : ReceiveResponse(body)

SpecGenerate == Init /\ [][NextGenerate]_vars

\* one call of either method on a model: doStream with its chunks and its
\* flush, or doGenerate with its response
NextUsage ==
    \/ \E tools \in ToolCounts, prompt \in StreamPrompts : DoStream(tools, prompt)
    \/ \E chunk \in OpenAIChunks \cup InflectionChunks : Transform(chunk)
    \/ Flush
    \/ \E tools \in ToolCounts, prompt \in Prompts : DoGenerate(tools, prompt)
    \/ \E body \in ResponseBodies : ReceiveResponse(body)

SpecUsage == Init /\ [][NextUsage]_vars

\* the calls of doGenerate and doStream on every model id, over prompts of
\* every kind of message; a response echoes the tool calls of the request
InitCall == InitFor(AllModelIds)

NextCall ==
    \/ /\ pc = "idle"
       /\ \E tools \in CallToolCounts, prompt \in CallPrompts : DoStream(tools, prompt)
    \/ /\ pc = "idle"
       /\ \E tools \in CallToolCounts, prompt \in CallPrompts : DoGenerate(tools, prompt)
    \/ /\ pc = "awaiting"
       /\ \E body \in EchoBodies(rawPrompt) : ReceiveResponse(body)

SpecCall == InitCall /\ [][NextCall]_vars

\* the variables one call reads and writes besides its own stream
callVars == <<pc, useOpenAIEndpoint, rawPrompt, promptTokens, finishReason,
              completionTokens, wire, out, thrown, response, result, options, request>>

\* locals that all the calls of the instance share
Closure_Shared(call) == 1

\* the call whose locals finishReason and completionTokens the transform and
\* flush closures of a call read and write: they are declared with let
\* inside doStream, so they are the call's own
Closure(call) == call

\* doStream of one of two calls on the instance, up to the creation of its
\* TransformStream
PairDoStream(call, tools, prompt) ==
    /\ streams[call].pc = "idle"
    /\ LET args == getArgs(modelId, tools, prompt) IN
       IF ~args.ok
       THEN streams' = [streams EXCEPT ![call].pc = "failed"]
       ELSE LET started == [streams EXCEPT
                               ![call].pc = "streaming",
                               ![call].useOpenAIEndpoint = UseOpenAIEndpoint(modelId, tools),
                               ![call].promptTokens =
                                   CeilDiv4(PromptTextLength(args.context))]
            IN streams' = [started EXCEPT
                              ![Closure(call)].finishReason = "stop",
                              ![Closure(call)].completionTokens = 0]
    /\ UNCHANGED <<modelId, callVars, generation>>

\* transform of one of the two streams on the next chunk of its response
PairTransform(call, chunk) ==
    /\ streams[call].pc = "streaming"
    /\ chunk \in PairChunks(streams[call].useOpenAIEndpoint)
    /\ Len(streams[call].wire) < MaxPairChunks
    /\ LET st == transform(chunk, streams[call].useOpenAIEndpoint,
                           [out |-> streams[call].out,
                            finishReason |-> streams[Closure(call)].finishReason,
                            completionTokens |-> streams[Closure(call)].completionTokens])
           enqueued == [streams EXCEPT ![call].out = st.out,
                                       ![call].wire = Append(@, chunk)]
       IN streams' = [enqueued EXCEPT
                         ![Closure(call)].finishReason = st.finishReason,
                         ![Closure(call)].completionTokens = st.completionTokens]
    /\ UNCHANGED <<modelId, callVars, generation>>

\* flush of one of the two streams
PairFlush(call) ==
    /\ streams[call].pc = "streaming"
    /\ streams' = [streams EXCEPT
                     ![call].pc = "done",
                     ![call].out = @ \o flush(streams[Closure(call)].finishReason,
                                              streams[call].promptTokens,
                                              streams[Closure(call)].completionTokens)]
    /\ UNCHANGED <<modelId, callVars, generation>>

NextPair ==
    \/ \E call \in Calls, tools \in ToolCounts, prompt \in StreamPrompts :
          PairDoStream(call, tools, prompt)
    \/ \E call \in Calls, chunk \in PairChunks(TRUE) \cup PairChunks(FALSE) :
          PairTransform(call, chunk)
    \/ \E call \in Calls : PairFlush(call)

SpecPair == Init /\ [][NextPair]_vars

\* generateObject up to its doGenerate call: the argument checks, then the
\* call with the system message in front of the prompt and no tools
GenerateObject(opts) ==
    /\ generation.pc = "idle"
    /\ pc = "idle"
    /\ IF ArgumentError(opts) # ""
       THEN /\ generation' = [pc |-> "rejected", options |-> opts,
                              thrown |-> [name |-> "Error",
                                          message |-> ArgumentError(opts)]]
            /\ UNCHANGED <<modelId, callVars, streams>>
       ELSE /\ generation' = [pc |-> "calling", options |-> opts]
            /\ doGenerate(0, FullPrompt(opts))

\* generateObject from the settling of its doGenerate call to its return or
\* throw
ResumeObject ==
    /\ generation.pc = "calling"
    /\ pc \in {"returned", "failed"}
    /\ LET outcome == AfterGenerate(generation.options, pc, result, thrown) IN
       generation' = IF outcome.ok
                     THEN [pc |-> "returned", options |-> generation.options,
                           value |-> outcome.value]
                     ELSE [pc |-> "failed", options |-> generation.options,
                           thrown |-> outcome.thrown]
    /\ UNCHANGED <<modelId, callVars, streams>>

NextObject ==
    \/ \E opts \in ObjectOptions : GenerateObject(opts)
    \/ \E body \in ObjectBodies : ReceiveResponse(body)
    \/ ResumeObject

SpecObject == Init /\ [][NextObject]_vars

\* ------------------------------------------------------------- properties
\* the events of a sequence that have one of the given types, in order
RECURSIVE OfTypes(_, _)
OfTypes(events, types) ==
    IF events = <<>> THEN <<>>
    ELSE IF Head(events).type \in types
    THEN <<Head(events)>> \o OfTypes(Tail(events), types)
    ELSE OfTypes(Tail(events), types)

CountType(events, type) == Len(OfTypes(events, {type}))

\* the step is a transform of one chunk
IsTransformStep == Len(wire') = Len(wire) + 1

\* the chunk a transform step consumed and the events it enqueued
StepChunk == wire'[Len(wire')]
StepEvents == SubSeq(out', Len(out) + 1, Len(out'))

\* the chunk fails transport-level parsing or the validation of its format
ChunkFails(chunk, openai) ==
    \/ ~chunk.success
    \/ IF openai
       THEN ~openAIStreamChunkSchemaOk(chunk.value) \/ Len(chunk.value.choices) = 0
       ELSE ~inflectionStreamChunkSchemaOk(chunk.value)

\* the tool-call entries of a chunk that passed validation
ChunkCalls(chunk, openai) ==
    LET holder == IF openai THEN chunk.value.choices[1].delta ELSE chunk.value IN
    IF "tool_calls" \in DOMAIN holder THEN holder.tool_calls ELSE <<>>

\* some chunk of the stream failed, or carried undecodable arguments
SomeTrouble ==
    \E i \in 1..Len(wire) :
        \/ ChunkFails(wire[i], useOpenAIEndpoint)
        \/ \E k \in 1..Len(ChunkCalls(wire[i], useOpenAIEndpoint)) :
              ~JSONParse(ChunkCalls(wire[i], useOpenAIEndpoint)[k].function.arguments).ok

\* C1: once the wire sequence is exhausted the output holds exactly one finish
\* event and it is the last event; while chunks may still arrive the output
\* holds no finish event. Both wire formats, failing chunks included.
C1_OneFinishLast ==
    /\ pc = "done" =>
          /\ CountType(out, "finish") = 1
          /\ out[Len(out)].type = "finish"
    /\ pc = "streaming" => CountType(out, "finish") = 0

C1_Witness ==
    /\ pc = "done"
    /\ Len(wire) >= 2
    /\ SomeTrouble
    /\ ChunkFails(wire[Len(wire)], useOpenAIEndpoint)

\* the number of chunks of the stream so far that failed parsing or validation
RECURSIVE FailedChunks(_, _)
FailedChunks(chunks, openai) ==
    IF chunks = <<>> THEN 0
    ELSE (IF ChunkFails(Head(chunks), openai) THEN 1 ELSE 0)
         + FailedChunks(Tail(chunks), openai)

\* C2: in the OpenAI-compatible format a tool-call entry whose arguments do
\* not parse produces no error event, so the error events of a stream are
\* exactly those of its chunks that failed parsing or validation.
C2_ErrorsOnlyFromChunks ==
    (pc \in {"streaming", "done"} /\ useOpenAIEndpoint) =>
        CountType(out, "error") = FailedChunks(wire, TRUE)

\* the argument fragments the validated chunks delivered for one call id
RECURSIVE CallFragments(_, _)
CallFragments(calls, id) ==
    IF calls = <<>> THEN <<>>
    ELSE IF Head(calls).id = id
    THEN <<Head(calls).function.arguments>> \o CallFragments(Tail(calls), id)
    ELSE CallFragments(Tail(calls), id)

RECURSIVE WireFragments(_, _)
WireFragments(chunks, id) ==
    IF chunks = <<>> THEN <<>>
    ELSE (IF ChunkFails(Head(chunks), TRUE) THEN <<>>
          ELSE CallFragments(ChunkCalls(Head(chunks), TRUE), id))
         \o WireFragments(Tail(chunks), id)

\* the concatenation of the first k fragments
RECURSIVE Accumulated(_, _)
Accumulated(fragments, k) ==
    IF k = 0 THEN <<>>
    ELSE Accumulated(fragments, k - 1) \o fragments[k]

CallIds == {"call_1", "call_2"}

\* C3: in the OpenAI-compatible format the decoder decodes the concatenation
\* of the fragments seen so far for a call id, and emits a tool-call with the
\* decoded args at the first fragment at which that text is complete JSON.
C3_AccumulatedArguments ==
    (pc \in {"streaming", "done"} /\ useOpenAIEndpoint) =>
        \A id \in CallIds :
            LET fragments == WireFragments(wire, id) IN
            \A k \in 1..Len(fragments) :
                (/\ JSONParse(Accumulated(fragments, k)).ok
                 /\ \A j \in 1..(k - 1) : ~JSONParse(Accumulated(fragments, j)).ok)
                => \E i \in 1..Len(out) :
                      /\ out[i].type = "tool-call"
                      /\ out[i].toolCallId = id
                      /\ out[i].args = JSONParse(Accumulated(fragments, k)).value

\* the stream is an OpenAI-compatible one that ended on a validated delta
\* whose tool_calls hold an entry with complete JSON arguments
EndsOnCompleteToolCall ==
    /\ pc = "done"
    /\ useOpenAIEndpoint
    /\ Len(wire) > 0
    /\ ~ChunkFails(wire[Len(wire)], TRUE)
    /\ \E k \in 1..Len(ChunkCalls(wire[Len(wire)], TRUE)) :
          JSONParse(ChunkCalls(wire[Len(wire)], TRUE)[k].function.arguments).ok

\* the output holds a tool-call-delta and a later tool-call for every entry of
\* the final delta whose arguments are complete JSON
FinalCallsEmitted ==
    LET calls == ChunkCalls(wire[Len(wire)], TRUE) IN
    \A k \in 1..Len(calls) :
        JSONParse(calls[k].function.arguments).ok =>
            \E i, j \in 1..Len(out) :
                /\ i < j
                /\ out[i].type = "tool-call-delta"
                /\ out[i].toolCallId = calls[k].id
                /\ out[i].argsTextDelta = calls[k].function.arguments
                /\ out[j].type = "tool-call"
                /\ out[j].toolCallId = calls[k].id
                /\ out[j].args = JSONParse(calls[k].function.arguments).value

FinalFinishReason == wire[Len(wire)].value.choices[1].finish_reason

\* C4 as stated: whatever finish_reason the final delta carries, the output
\* holds the tool-call-delta and the tool-call, and the finish event has
\* finishReason "tool-calls".
C4_AlwaysToolCalls ==
    EndsOnCompleteToolCall =>
        /\ FinalCallsEmitted
        /\ out[Len(out)].type = "finish"
        /\ out[Len(out)].finishReason = "tool-calls"

\* C4 amended: the tool-call-delta and the tool-call are emitted for every
\* finish_reason; the finish event has finishReason "tool-calls" when the
\* final delta's finish_reason is null or tool_calls, and has that
\* finish_reason (stop, length, content-filter) otherwise.
C4_FinishReasonOfFinalDelta ==
    EndsOnCompleteToolCall =>
        /\ FinalCallsEmitted
        /\ out[Len(out)].type = "finish"
        /\ out[Len(out)].finishReason =
              IF FinalFinishReason \in {JsNull, "tool_calls"}
              THEN "tool-calls"
              ELSE FinalFinishReason

C4_Witness ==
    /\ EndsOnCompleteToolCall
    /\ FinalFinishReason = "tool_calls"
    /\ Len(wire) = 2
    /\ out[Len(out)].finishReason = "tool-calls"

\* C5: in the OpenAI-compatible format every entry of delta.tool_calls of a
\* validated chunk produces exactly one tool-call-delta with the entry's id,
\* name and raw arguments text, whether or not the arguments parse, and every
\* tool-call or error event of the chunk directly follows the tool-call-delta
\* of its entry.
C5_DeltaForEveryEntry ==
    [][(IsTransformStep /\ useOpenAIEndpoint /\ ~ChunkFails(StepChunk, TRUE)) =>
          LET calls == ChunkCalls(StepChunk, TRUE)
              deltas == OfTypes(StepEvents, {"tool-call-delta"})
          IN /\ Len(deltas) = Len(calls)
             /\ \A k \in 1..Len(calls) :
                   deltas[k] = [type |-> "tool-call-delta",
                                toolCallType |-> "function",
                                toolCallId |-> calls[k].id,
                                toolName |-> calls[k].function.name,
                                argsTextDelta |-> calls[k].function.arguments]
             /\ \A p \in 1..Len(StepEvents) :
                   StepEvents[p].type \in {"tool-call", "error"} =>
                      /\ p > 1
                      /\ StepEvents[p - 1].type = "tool-call-delta"
                      /\ StepEvents[p].type = "tool-call" =>
                            StepEvents[p - 1].toolCallId = StepEvents[p].toolCallId
      ]_vars

C5_Witness ==
    /\ pc = "streaming"
    /\ useOpenAIEndpoint
    /\ Len(wire) = 1
    /\ ~ChunkFails(wire[1], TRUE)
    /\ Len(ChunkCalls(wire[1], TRUE)) = 2
    /\ Len(out) = 4
    /\ out[1].type = "tool-call-delta" /\ out[2].type = "error"
    /\ out[3].type = "tool-call-delta" /\ out[4].type = "tool-call"

\* C6: in the vendor-native format a tool call whose arguments are not valid
\* JSON yields exactly one error event and no tool-call; the other tool calls
\* of the chunk yield their tool-call in array order, the chunk sets
\* finishReason to "tool-calls", and the stream goes on.
C6_BadToolCallIsOneError ==
    [][(/\ IsTransformStep
        /\ ~useOpenAIEndpoint
        /\ ~ChunkFails(StepChunk, FALSE)
        /\ Len(ChunkCalls(StepChunk, FALSE)) > 0) =>
          LET calls == ChunkCalls(StepChunk, FALSE)
              produced == OfTypes(StepEvents, {"tool-call", "error", "tool-call-delta"})
          IN /\ Len(produced) = Len(calls)
             /\ \A k \in 1..Len(calls) :
                   LET parsed == JSONParse(calls[k].function.arguments) IN
                   IF parsed.ok
                   THEN /\ produced[k].type = "tool-call"
                        /\ produced[k].toolCallId = calls[k].id
                        /\ produced[k].toolName = calls[k].function.name
                        /\ produced[k].args = parsed.value
                   ELSE produced[k].type = "error"
             /\ finishReason' = "tool-calls"
             /\ pc' = "streaming"
      ]_vars

C6_Witness ==
    /\ pc = "done"
    /\ ~useOpenAIEndpoint
    /\ Len(wire) = 2
    /\ ~ChunkFails(wire[1], FALSE)
    /\ Len(ChunkCalls(wire[1], FALSE)) = 2
    /\ ~JSONParse(ChunkCalls(wire[1], FALSE)[1].function.arguments).ok
    /\ Len(out) = 4
    /\ out[1].type = "error" /\ out[2].type = "tool-call"
    /\ out[3].type = "text-delta"
    /\ out[4].type = "finish" /\ out[4].finishReason = "tool-calls"

\* C7: in both formats a chunk that fails transport-level parsing or the
\* validation of its shape (an OpenAI-compatible chunk with no choices
\* included) produces exactly one error event and nothing else, leaves
\* finishReason and completionTokens unchanged and leaves the stream open; the
\* flush of a stream that had failing chunks still emits the finish event.
C7_FailedChunkIsOneError ==
    [][/\ (IsTransformStep /\ ChunkFails(StepChunk, useOpenAIEndpoint)) =>
             /\ Len(StepEvents) = 1
             /\ StepEvents[1].type = "error"
             /\ finishReason' = finishReason
             /\ completionTokens' = completionTokens
             /\ pc' = "streaming"
       /\ (pc = "streaming" /\ pc' = "done"
              /\ FailedChunks(wire, useOpenAIEndpoint) > 0) =>
             /\ Len(out') = Len(out) + 1
             /\ out'[Len(out')].type = "finish"
      ]_vars

C7_Witness ==
    /\ pc = "done"
    /\ useOpenAIEndpoint
    /\ Len(wire) = 2
    /\ wire[1].success /\ openAIStreamChunkSchemaOk(wire[1].value)
    /\ Len(wire[1].value.choices) = 0
    /\ Len(out) = 3
    /\ out[1].type = "error" /\ out[2].type = "text-delta" /\ out[3].type = "finish"

\* the tool_calls array of the response body ([] when absent or null)
ResponseCalls ==
    IF "tool_calls" \in DOMAIN response /\ response.tool_calls # JsNullArray
    THEN response.tool_calls
    ELSE <<>>

\* C8: in doGenerate, when a tool call of the (valid) response has arguments
\* that are not valid JSON, the call fails with the decode error and returns
\* no result.
C8_BadArgumentsFailGenerate ==
    (/\ pc \in {"returned", "failed"}
     /\ inflectionChatResponseSchema(response).ok
     /\ \E k \in 1..Len(ResponseCalls) :
           ~JSONParse(ResponseCalls[k].function.arguments).ok) =>
        /\ pc = "failed"
        /\ thrown = SyntaxError
        /\ result = <<>>

C8_Witness ==
    /\ pc = "failed"
    /\ thrown = SyntaxError
    /\ Len(ResponseCalls) = 2
    /\ JSONParse(ResponseCalls[1].function.arguments).ok
    /\ ~JSONParse(ResponseCalls[2].function.arguments).ok
    /\ Len(response.text) > 0
    /\ result = <<>>

\* C9: doGenerate returns finishReason "tool-calls" exactly when the response's
\* tool_calls array is non-empty and "stop" otherwise; a response whose
\* tool_calls is null, absent or empty is accepted and yields "stop"; the
\* returned tool calls keep the order of the response.
C9_GenerateFinishReason ==
    /\ pc = "returned" =>
          /\ result.finishReason =
                IF Len(ResponseCalls) > 0 THEN "tool-calls" ELSE "stop"
          /\ "toolCalls" \in DOMAIN result =>
                /\ Len(result.toolCalls) = Len(ResponseCalls)
                /\ \A k \in 1..Len(ResponseCalls) :
                      /\ result.toolCalls[k].toolCallId = ResponseCalls[k].id
                      /\ result.toolCalls[k].args =
                            JSONParse(ResponseCalls[k].function.arguments).value
    /\ (/\ pc \in {"returned", "failed"}
        /\ HasKeys(response, {"created", "text"})
        /\ Len(ResponseCalls) = 0) =>
          /\ pc = "returned"
          /\ result.finishReason = "stop"

C9_Witness ==
    /\ pc = "returned"
    /\ "tool_calls" \in DOMAIN response
    /\ response.tool_calls = JsNullArray
    /\ result.finishReason = "stop"
    /\ result.toolCalls = <<>>

\* the least k with 4k >= n
Ceil4(n) == CHOOSE k \in 0..n : 4 * k >= n /\ 4 * (k - 1) < n

\* the sum of ceil(length / 4) over the text-delta events of a sequence
RECURSIVE TextDeltaTokens(_)
TextDeltaTokens(events) ==
    IF events = <<>> THEN 0
    ELSE (IF Head(events).type = "text-delta"
          THEN Ceil4(Len(Head(events).textDelta)) ELSE 0)
         + TextDeltaTokens(Tail(events))

\* C10: in both formats the completionTokens of the finish event is the sum of
\* ceil(length / 4) over the text-delta events emitted in the stream (and the
\* running count is that sum at every point of the stream).
C10_CompletionTokensSum ==
    /\ pc = "streaming" => completionTokens = TextDeltaTokens(out)
    /\ pc = "done" =>
          out[Len(out)].usage.completionTokens = TextDeltaTokens(out)

C10_Witness ==
    /\ pc = "done"
    /\ Len(wire) = 3
    /\ CountType(out, "text-delta") = 2
    /\ FailedChunks(wire, useOpenAIEndpoint) = 1
    /\ out[Len(out)].usage.completionTokens = 3

\* ------------------------------------------- properties of the converter
\* the call got past getArgs: the prompt was converted
Converted == pc \in {"streaming", "awaiting", "returned"}

\* the parts of a message content (none for a string content)
PartsOf(msg) ==
    IF "string" \in DOMAIN msg.content THEN <<>> ELSE msg.content.parts

\* some part of the message has one of the given types
HasPart(msg, types) ==
    \E i \in 1..Len(PartsOf(msg)) : PartsOf(msg)[i].type \in types

\* some message of the prompt has a part of one of the given types
PromptHasPart(prompt, types) ==
    \E i \in 1..Len(prompt) : HasPart(prompt[i], types)

\* the prompt has only string contents and text parts
TextOnly(prompt) ==
    ~PromptHasPart(prompt, {"tool-call", "tool-result", "image", "file"})

\* the texts of the text parts, concatenated
RECURSIVE JoinTexts(_)
JoinTexts(parts) ==
    IF parts = <<>> THEN <<>> ELSE Head(parts).text \o JoinTexts(Tail(parts))

\* the text of a text-only message
MessageText(msg) ==
    IF "string" \in DOMAIN msg.content THEN msg.content.string
    ELSE JoinTexts(msg.content.parts)

\* the wire type of a role
RoleType(role) ==
    CASE role = "user" -> "Human"
      [] role = "assistant" -> "AI"
      [] role = "system" -> "Instruction"
      [] role = "tool" -> "Tool"

\* a text-only prompt with its empty messages removed, each message left
\* as its wire type and its text
RECURSIVE WithoutEmpty(_)
WithoutEmpty(prompt) ==
    IF prompt = <<>> THEN <<>>
    ELSE IF MessageText(Head(prompt)) = <<>> THEN WithoutEmpty(Tail(prompt))
    ELSE <<[type |-> RoleType(Head(prompt).role), text |-> MessageText(Head(prompt))]>>
         \o WithoutEmpty(Tail(prompt))

\* C11: on every model id a text-only prompt is converted without failure
\* into its messages of non-empty text, in their order, each one as the wire
\* type of its role (user: Human, assistant: AI, system: Instruction) with
\* its concatenated text and nothing else.
C11_TextOnlyConversion ==
    (pc # "idle" /\ TextOnly(options.prompt)
        /\ ~(options.tools > 0 /\ modelId # ToolModel))
        => /\ Converted
           /\ rawPrompt = WithoutEmpty(options.prompt)

C11_Witness ==
    /\ pc = "awaiting"
    /\ modelId = "inflection_3_productivity"
    /\ TextOnly(options.prompt)
    /\ Len(options.prompt) = 2
    /\ options.prompt[1].role = "assistant"
    /\ MessageText(options.prompt[1]) = <<>>
    /\ rawPrompt = <<[type |-> "Instruction", text |-> Hi]>>

\* the message has a tool-call part
HasToolCallPart(msg) == HasPart(msg, {"tool-call"})

\* the message is an assistant message with a tool-call part
IsAssistantCall(msg) == msg.role = "assistant" /\ HasToolCallPart(msg)

\* the wire message carries tool calls
HasToolCalls(entry) == "tool_calls" \in DOMAIN entry

IsToolCallPart(part) == part.type = "tool-call"

\* one wire tool call per tool-call part of the message, in part order
ExpectedToolCalls(msg) ==
    LET parts == SelectSeq(PartsOf(msg), IsToolCallPart) IN
    [i \in 1..Len(parts) |->
        [id |-> parts[i].toolCallId,
         type |-> "function",
         function |-> [name |-> parts[i].toolName,
                       arguments |-> JSONStringify(parts[i].args)]]]

\* the wire messages with tool calls are, in order, the AI messages of the
\* given prompt messages, each with the tool calls of its message
YieldToolCalls(msgs, context) ==
    LET entries == SelectSeq(context, HasToolCalls) IN
    /\ Len(entries) = Len(msgs)
    /\ \A i \in 1..Len(entries) :
          /\ entries[i].type = "AI"
          /\ entries[i].tool_calls # <<>>
          /\ entries[i].tool_calls = ExpectedToolCalls(msgs[i])

\* C12 as stated: on the tool model every prompt message with a tool-call
\* part, whatever its role and whatever else the prompt holds, yields an AI
\* wire message with the tool calls of its parts.
C12_EveryToolCallMessage ==
    (pc # "idle" /\ modelId = ToolModel)
        => \/ ~PromptHasPart(options.prompt, {"tool-call"})
           \/ /\ Converted
              /\ YieldToolCalls(SelectSeq(options.prompt, HasToolCallPart), rawPrompt)

\* C12: on the tool model, when the prompt has no image or file part, every
\* assistant message with a tool-call part yields an AI wire message whose
\* tool_calls holds, in part order, one entry per tool-call part with the
\* part's id, name and JSON-encoded args; no other message yields tool_calls.
C12_AssistantToolCalls ==
    (pc # "idle" /\ modelId = ToolModel
        /\ ~PromptHasPart(options.prompt, {"image", "file"}))
        => /\ Converted
           /\ YieldToolCalls(SelectSeq(options.prompt, IsAssistantCall), rawPrompt)

C12_Witness ==
    /\ pc = "streaming"
    /\ modelId = ToolModel
    /\ Len(options.prompt) = 2
    /\ options.prompt[1].role = "user"
    /\ HasToolCallPart(options.prompt[1])
    /\ Len(rawPrompt) = 2
    /\ rawPrompt[1].type = "Human"
    /\ ~HasToolCalls(rawPrompt[1])
    /\ HasToolCalls(rawPrompt[2])
    /\ Len(rawPrompt[2].tool_calls) = 2
    /\ rawPrompt[2].tool_calls[2].id = "call_2"

\* no request was handed to postJsonToApi
NoRequest == DOMAIN request = {}

\* the call threw an UnsupportedFunctionalityError before it built a request
\* and without any converted context
FailedUnsupported ==
    /\ pc = "failed"
    /\ thrown \in UnsupportedFunctionalityErrors
    /\ rawPrompt = <<>>
    /\ NoRequest

\* C13: on every model id other than inflection_3_with_tools, a prompt with
\* a tool-call or tool-result part in any message of any role makes
\* doGenerate and doStream fail with an UnsupportedFunctionalityError, with
\* no converted context and no request.
C13_ToolPartsNeedToolModel ==
    (pc # "idle" /\ modelId # ToolModel
        /\ PromptHasPart(options.prompt, {"tool-call", "tool-result"}))
        => FailedUnsupported

C13_Witness ==
    /\ FailedUnsupported
    /\ modelId = DefaultModel
    /\ options.tools = 0
    /\ Len(options.prompt) = 2
    /\ TextOnly(<<options.prompt[1]>>)
    /\ MessageText(options.prompt[1]) # <<>>
    /\ options.prompt[2].role = "user"
    /\ HasPart(options.prompt[2], {"tool-result"})
    /\ thrown = ToolResultsUnsupported

\* C14: a prompt with an image or file part, in a message of any role, makes
\* doGenerate and doStream fail with an UnsupportedFunctionalityError on
\* every model id and for every number of declared tools, hence on both
\* streaming endpoints, with no request handed to postJsonToApi.
C14_MediaPartsUnsupported ==
    (pc # "idle" /\ PromptHasPart(options.prompt, {"image", "file"}))
        => FailedUnsupported

C14_Witness ==
    /\ FailedUnsupported
    /\ UseOpenAIEndpoint(modelId, options.tools)
    /\ Len(options.prompt) = 2
    /\ IsAssistantCall(options.prompt[1])
    /\ options.prompt[2].role = "tool"
    /\ HasPart(options.prompt[2], {"image"})
    /\ thrown = ImageUnsupported

\* C15: a call that declares tools on a model other than
\* inflection_3_with_tools fails with the tools error, whatever conversion
\* error its prompt would raise, with no converted context and no request;
\* a call that declares no tools fails on no model unless its prompt has a
\* part the conversion rejects.
C15_ToolsNeedToolModel ==
    /\ (pc # "idle" /\ options.tools > 0 /\ modelId # ToolModel)
          => /\ FailedUnsupported
             /\ thrown = ToolCallsUnsupported
    /\ (pc # "idle" /\ options.tools = 0 /\ TextOnly(options.prompt))
          => /\ Converted
             /\ ~NoRequest

C15_Witness ==
    /\ pc = "failed"
    /\ modelId = "inflection_3_productivity"
    /\ options.tools = 2
    /\ HasPart(options.prompt[1], {"image"})
    /\ ~HasPart(options.prompt[1], {"tool-call", "tool-result"})
    /\ thrown = ToolCallsUnsupported

\* the tool calls doGenerate returns when the response carries the wire
\* tool calls of the message with the args of its parts
ExpectedDecoded(msg) ==
    LET parts == SelectSeq(PartsOf(msg), IsToolCallPart) IN
    [i \in 1..Len(parts) |->
        [toolCallType |-> "function",
         toolCallId |-> parts[i].toolCallId,
         toolName |-> parts[i].toolName,
         args |-> parts[i].args]]

\* a response arrived
Responded == DOMAIN response # {}

FreshDecoder == [out |-> <<>>, finishReason |-> "stop", completionTokens |-> 0]

\* the decoder state after the given chunks, every one of them decoded in
\* the same wire format
RECURSIVE DecodeAll(_, _, _)
DecodeAll(chunks, openai, st) ==
    IF chunks = <<>> THEN st
    ELSE DecodeAll(Tail(chunks), openai, transform(Head(chunks), openai, st))

\* the call is on the tool model and declares at least one tool
ToolStream == modelId = ToolModel /\ options.tools > 0

\* the events of the stream but its finish event
BeforeFinish == IF pc = "done" THEN SubSeq(out, 1, Len(out) - 1) ELSE out

\* C16: a stream is requested at the OpenAI-compatible url with a messages
\* body, and all of its chunks are decoded as OpenAI chunks, exactly when the
\* model is inflection_3_with_tools and the call declares a tool; every
\* other stream is requested at /streaming with a context body and all of
\* its chunks are decoded as vendor chunks.
C16_EndpointChosenOnce ==
    pc \in {"streaming", "done"}
        => /\ useOpenAIEndpoint = ToolStream
           /\ request.url = (IF ToolStream THEN OpenAIStreamingURL ELSE StreamingURL)
           /\ ("messages" \in DOMAIN request.body) = ToolStream
           /\ ("context" \in DOMAIN request.body) = ~ToolStream
           /\ request.body.stream
           /\ BeforeFinish = DecodeAll(wire, ToolStream, FreshDecoder).out

C16_Witness ==
    /\ pc = "done"
    /\ modelId = ToolModel
    /\ options.tools = 0
    /\ request.url = StreamingURL
    /\ Len(wire) = 2
    /\ CountType(out, "response-metadata") = 1
    /\ CountType(out, "text-delta") = 2

\* the events of the chunks, each chunk decoded on its own, one chunk after
\* the other
RECURSIVE EventsInWireOrder(_, _)
EventsInWireOrder(chunks, openai) ==
    IF chunks = <<>> THEN <<>>
    ELSE transform(Head(chunks), openai, FreshDecoder).out
         \o EventsInWireOrder(Tail(chunks), openai)

\* the event of one tool_calls entry of a vendor chunk
VendorCallEvent(call) ==
    IF JSONParse(call.function.arguments).ok
    THEN [type |-> "tool-call", toolCallType |-> "function", toolCallId |-> call.id,
          toolName |-> call.function.name,
          args |-> JSONParse(call.function.arguments).value]
    ELSE [type |-> "error", error |-> ToolCallError]

\* the events of a valid vendor chunk: response-metadata exactly when idx
\* is 0, then text-delta when the text is not empty, then one event per
\* tool_calls entry in array order
VendorChunkEvents(value) ==
    LET calls == IF "tool_calls" \in DOMAIN value THEN value.tool_calls ELSE <<>> IN
    (IF value.idx = 0
     THEN <<[type |-> "response-metadata", timestamp |-> value.created * 1000]>>
     ELSE <<>>)
    \o (IF Len(value.text) > 0
        THEN <<[type |-> "text-delta", textDelta |-> value.text]>>
        ELSE <<>>)
    \o [k \in 1..Len(calls) |-> VendorCallEvent(calls[k])]

\* C18: the events before the finish event are the events of the first
\* chunk, then those of the second, and so on, each chunk's events being
\* what the chunk yields on its own; a valid vendor chunk yields
\* response-metadata exactly when idx = 0, then text-delta when its text is
\* not empty, then a tool-call or error event per tool_calls entry in order.
C18_EventsInWireOrder ==
    pc \in {"streaming", "done"}
        => /\ BeforeFinish = EventsInWireOrder(wire, useOpenAIEndpoint)
           /\ ~useOpenAIEndpoint
                => \A i \in 1..Len(wire) :
                      ~ChunkFails(wire[i], FALSE)
                         => transform(wire[i], FALSE, FreshDecoder).out
                              = VendorChunkEvents(wire[i].value)

C18_Witness ==
    /\ pc = "done"
    /\ ~useOpenAIEndpoint
    /\ Len(wire) = 2
    /\ wire[1] = InflectionToolChunk(0, Hi, <<WireCall("call_2", ArgsWhole)>>)
    /\ "tool_calls" \in DOMAIN wire[2].value
    /\ Len(out) = 6
    /\ out[1].type = "response-metadata"
    /\ out[2].type = "text-delta"
    /\ out[3].type = "tool-call"
    /\ out[4].type = "error"
    /\ out[5].type = "tool-call"
    /\ out[6].type = "finish"

\* what a stream enqueues when its chunks are decoded with nothing else
\* running: the events of its chunks, then its finish event
AloneOut(stream) ==
    LET alone == DecodeAll(stream.wire, stream.useOpenAIEndpoint, FreshDecoder) IN
    alone.out \o <<[type |-> "finish", finishReason |-> alone.finishReason,
                    usage |-> [promptTokens |-> stream.promptTokens,
                               completionTokens |-> alone.completionTokens]]>>

\* C19: whatever the interleaving of two doStream calls on one instance, a
\* stream that ended has enqueued the events, and the finish event with the
\* finishReason and completionTokens, that its own chunks yield when decoded
\* alone.
C19_StreamsIndependent ==
    \A call \in Calls :
        streams[call].pc = "done" => streams[call].out = AloneOut(streams[call])

C19_Witness ==
    /\ streams[1].pc = "streaming"
    /\ Len(streams[1].wire) = 1
    /\ streams[1].finishReason = "tool-calls"
    /\ streams[1].completionTokens = 1
    /\ streams[2].pc = "done"
    /\ Len(streams[2].wire) = 2
    /\ streams[2].out[Len(streams[2].out)]
          = FinishEvent("stop", 2, 4)

\* -------------------------------------------- properties of generateObject
\* generateObject threw the Error with the given message and its model's
\* doGenerate was never entered
RejectedWith(message) ==
    /\ generation.pc = "rejected"
    /\ generation.thrown = [name |-> "Error", message |-> message]
    /\ pc = "idle"
    /\ NoRequest

\* C20: generateObject rejects, with doGenerate never entered, a model of
\* another class, whatever the other options; then, for an Inflection
\* model, output "enum" with enum values missing or empty and output
\* "object" (also by default) or "array" with no schema.
C20_ArgumentChecksInOrder ==
    generation.pc # "idle"
        => LET opts == generation.options
               isEnum == "output" \in DOMAIN opts /\ opts.output = "enum"
               needsSchema == "output" \in DOMAIN opts => opts.output \in {"object", "array"}
           IN /\ opts.model # InflectionClass => RejectedWith(ModelMustBeInflection)
              /\ (opts.model = InflectionClass /\ isEnum
                    /\ ("enum" \in DOMAIN opts => opts.enum = <<>>))
                    => RejectedWith(EnumValuesRequired)
              /\ (opts.model = InflectionClass /\ needsSchema
                    /\ "schema" \notin DOMAIN opts)
                    => RejectedWith(SchemaRequired)

C20_Witness ==
    /\ RejectedWith(ModelMustBeInflection)
    /\ "output" \notin DOMAIN generation.options
    /\ "schema" \notin DOMAIN generation.options
    /\ "enum" \notin DOMAIN generation.options

\* the value generateObject validates: the trimmed text for the enum
\* output, the parsed JSON text for the other outputs
ValueToValidate(opts, text) ==
    IF OutputOf(opts) = "enum" THEN [t |-> "str", v |-> Trim(text)]
    ELSE JSONParse(text).value

\* the doGenerate call failed, or its text fails a validation of the output
\* mode: it is empty, it is not JSON (outputs other than enum), it does not
\* conform to the schema given, or it is not one of the enum values
Flawed(opts) ==
    \/ pc = "failed"
    \/ result.text = <<>>
    \/ OutputOf(opts) # "enum" /\ ~JSONParse(result.text).ok
    \/ /\ "schema" \in DOMAIN opts
       /\ IF OutputOf(opts) = "array"
          THEN ~ArraySchemaOk(opts.schema, ValueToValidate(opts, result.text))
          ELSE ~SchemaOk(opts.schema, ValueToValidate(opts, result.text))
    \/ /\ OutputOf(opts) = "enum"
       /\ \A i \in 1..Len(opts.enum) : opts.enum[i] # Trim(result.text)

\* C21: after the argument checks passed, generateObject fails exactly when
\* its doGenerate call failed or the response text fails a validation of
\* the output mode, every such failure is a NoContentGeneratedError, and
\* the object it returns otherwise is the validated value.
C21_FailuresAreNoContent ==
    generation.pc \in {"returned", "failed"}
        => /\ generation.pc = "failed"
                => generation.thrown.name = "NoContentGeneratedError"
           /\ Flawed(generation.options) <=> generation.pc = "failed"
           /\ generation.pc = "returned"
                => generation.value.object
                     = ValueToValidate(generation.options, result.text)

C21_Witness ==
    /\ generation.pc = "failed"
    /\ pc = "returned"
    /\ OutputOf(generation.options) = "array"
    /\ generation.options.schema = "z.number()"
    /\ result.text = <<"[", "[", "1", "]", "]">>
    /\ generation.thrown = [name |-> "NoContentGeneratedError",
                            message |-> "Schema validation failed"]

\* ---- the wire entries of the converter, message by message ----

IsToolResultPart(part) == part.type = "tool-result"

IsTextPart(part) == part.type = "text"

\* the position of the last tool-result part, 0 when there is none
LastToolResult(parts) ==
    LET at == {i \in 1..Len(parts) : IsToolResultPart(parts[i])} IN
    IF at = {} THEN 0 ELSE CHOOSE i \in at : \A j \in at : j <= i

\* the text a message accumulates: its string content, or the JSON text of
\* its last tool-result part, if any, followed by the text parts after it
AccumulatedText(msg) ==
    IF "string" \in DOMAIN msg.content THEN msg.content.string
    ELSE LET parts == msg.content.parts
             k == LastToolResult(parts)
             rest == SelectSeq(SubSeq(parts, k + 1, Len(parts)), IsTextPart) IN
         IF k = 0 THEN JoinTexts(rest)
         ELSE JSONStringify(parts[k].result) \o JoinTexts(rest)

\* the message has some text or collected a tool call
Carries(msg) == AccumulatedText(msg) # <<>> \/ HasToolCallPart(msg)

\* the message is one the converter writes an entry for: a tool message
\* needs text, a message of another role text or a tool call
Written(msg) ==
    IF msg.role = "tool" THEN AccumulatedText(msg) # <<>> ELSE Carries(msg)

\* the converted context is made of the entries of each message converted
\* alone, in message order, and each message alone yields one entry when
\* keep(msg) holds and none otherwise
EntryPerMessage(prompt, context, keep(_)) ==
    LET alone(i) == convertToInflectionChatMessages(<<prompt[i]>>, ToolModel).context
        upTo[i \in 0..Len(prompt)] ==
            IF i = 0 THEN <<>> ELSE upTo[i - 1] \o alone(i) IN
    /\ context = upTo[Len(prompt)]
    /\ \A i \in 1..Len(prompt) : Len(alone(i)) = IF keep(prompt[i]) THEN 1 ELSE 0
    /\ Len(context) = Cardinality({i \in 1..Len(prompt) : keep(prompt[i])})

\* C22 as stated: on the tool model the context has exactly one entry for
\* every message, of any role, whose accumulated text is non-empty or that
\* collected a tool call, and none for any other message.
C22_EveryCarryingMessage ==
    (Converted /\ modelId = ToolModel)
        => EntryPerMessage(options.prompt, rawPrompt, Carries)

\* C22: on the tool model the context has exactly one entry for every user,
\* assistant or system message whose accumulated text is non-empty or that
\* collected a tool call, one for every tool message whose accumulated text
\* is non-empty, and none for any other message, message by message.
C22_EntryPerWrittenMessage ==
    (Converted /\ modelId = ToolModel)
        => EntryPerMessage(options.prompt, rawPrompt, Written)

C22_Witness ==
    /\ Converted /\ modelId = ToolModel
    /\ Len(options.prompt) = 2
    /\ options.prompt[1].role = "tool"
    /\ HasToolCallPart(options.prompt[1])
    /\ AccumulatedText(options.prompt[1]) = <<>>
    /\ options.prompt[2].role = "assistant"
    /\ HasToolCallPart(options.prompt[2])
    /\ Len(rawPrompt) = 1
    /\ rawPrompt[1].type = "AI"

\* the position in the context of the entry of the i-th prompt message,
\* which is a written one
EntryIndex(prompt, i) == Cardinality({j \in 1..i : Written(prompt[j])})

\* the written tool messages of the prompt that have a tool-result part
ToolResultMessages(prompt) ==
    {i \in 1..Len(prompt) :
        /\ prompt[i].role = "tool"
        /\ HasPart(prompt[i], {"tool-result"})
        /\ Written(prompt[i])}

\* C23: on the tool model the Tool entry of a tool message carries as
\* tool_call_id the toolCallId of the tool-result part whose result its text
\* encodes, which is the last tool-result part of the message, also when the
\* message has several tool-result parts with different ids.
C23_ToolCallIdOfEncodedResult ==
    (Converted /\ modelId = ToolModel)
        => \A i \in ToolResultMessages(options.prompt) :
              LET parts == options.prompt[i].content.parts
                  entry == rawPrompt[EntryIndex(options.prompt, i)] IN
              /\ entry.type = "Tool"
              /\ entry.text = AccumulatedText(options.prompt[i])
              /\ "tool_call_id" \in DOMAIN entry
              /\ entry.tool_call_id = parts[LastToolResult(parts)].toolCallId

\* C24: the text of the entry of a message is the concatenation, in order
\* and without separator, of its text parts; on the tool model, when the
\* message has tool-result parts, it is the JSON text of the last of them
\* followed by the text parts after it, and whatever came before is dropped.
C24_AccumulatedText ==
    Converted
        => /\ Len(rawPrompt) = EntryIndex(options.prompt, Len(options.prompt))
           /\ \A i \in 1..Len(options.prompt) :
                 Written(options.prompt[i])
                    => rawPrompt[EntryIndex(options.prompt, i)].text
                          = AccumulatedText(options.prompt[i])

C24_Witness ==
    /\ Converted /\ modelId = ToolModel
    /\ Len(options.prompt) = 2
    /\ options.prompt[1].content
          = [parts |-> <<TextPart(Hi), ToolResultPart("call_1", JsArr(<<JsNum(1)>>)),
                         TextPart(Hello)>>]
    /\ options.prompt[2].content
          = [parts |-> <<TextPart(Hi), ToolResultPart("call_1", JsNum(11))>>]
    /\ Len(rawPrompt) = 2
    /\ rawPrompt[1].text = <<"[", "1", "]">> \o Hello
    /\ rawPrompt[2].text = <<"1", "1">>

\* ---- the decoder's finishReason and token counts, chunk by chunk ----

\* the chunk was parsed, has the shape of an OpenAI chunk and a choice
ValidOpenAIChunk(chunk) ==
    /\ chunk.success
    /\ openAIStreamChunkSchemaOk(chunk.value)
    /\ Len(chunk.value.choices) > 0

\* the finishReason the specification gives for a wire finish_reason
MappedFinishReason(reason) ==
    CASE reason = "tool_calls" -> "tool-calls"
      [] reason = "content-filter" -> "content-filter"
      [] reason = "stop" -> "stop"
      [] reason = "length" -> "length"

\* the first choice of a valid OpenAI chunk carries tool-call entries
CarriesToolCalls(choice) ==
    "tool_calls" \in DOMAIN choice.delta /\ Len(choice.delta.tool_calls) > 0

\* C25: in the OpenAI-compatible format, a chunk with a finish_reason leaves
\* the decoder's finishReason at the mapping of that finish_reason
\* (tool_calls to tool-calls, the others unchanged), whatever tool-call
\* entries this or an earlier chunk carried; a chunk with a null
\* finish_reason leaves it at what the chunk's tool-call handling made of it:
\* tool-calls when the chunk carries tool-call entries, its former value
\* otherwise.
C25_FinishReasonMapped ==
    [][(pc = "streaming" /\ useOpenAIEndpoint /\ Len(wire') = Len(wire) + 1
            /\ ValidOpenAIChunk(wire'[Len(wire')]))
        => LET choice == wire'[Len(wire')].value.choices[1] IN
           finishReason' =
              IF choice.finish_reason # JsNull
              THEN MappedFinishReason(choice.finish_reason)
              ELSE IF CarriesToolCalls(choice) THEN "tool-calls"
              ELSE finishReason]_vars

C25_Witness ==
    /\ pc = "streaming" /\ useOpenAIEndpoint
    /\ Len(wire) = 3
    /\ wire[1] = OpenAIChunk([tool_calls |-> <<WireCall("call_1", ArgsOpen)>>], JsNull)
    /\ wire[2] = OpenAIChunk([tool_calls |-> <<WireCall("call_1", ArgsWhole)>>], "length")
    /\ wire[3] = OpenAIChunk([content |-> Hello], JsNull)
    /\ finishReason = "length"

\* the total length of the text fields of the entries of a context
TotalTextLength(context) ==
    LET upTo[i \in 0..Len(context)] ==
            IF i = 0 THEN 0 ELSE upTo[i - 1] + Len(context[i].text) IN
    upTo[Len(context)]

\* the total length of the texts the messages of a prompt accumulate
TotalAccumulated(prompt) ==
    LET upTo[i \in 0..Len(prompt)] ==
            IF i = 0 THEN 0 ELSE upTo[i - 1] + Len(AccumulatedText(prompt[i])) IN
    upTo[Len(prompt)]

\* C26: the promptTokens of a call is ceil(L / 4), L being the total length
\* of the texts of the context converted from its prompt; it is the same
\* function of the prompt in doGenerate and in doStream, it is fixed when
\* the stream starts and the finish event reports it whatever chunks came in
\* either wire format; promptTokens and completionTokens are integers >= 0.
C26_PromptTokensEstimate ==
    /\ pc \in {"streaming", "done", "awaiting", "returned"}
          => /\ promptTokens = Ceil4(TotalTextLength(rawPrompt))
             /\ promptTokens = Ceil4(TotalAccumulated(options.prompt))
             /\ promptTokens \in Nat
             /\ completionTokens \in Nat
    /\ pc = "done"
          => /\ out[Len(out)].type = "finish"
             /\ out[Len(out)].usage.promptTokens = promptTokens
             /\ out[Len(out)].usage.completionTokens \in Nat
    /\ pc = "returned"
          => /\ result.usage.promptTokens = promptTokens
             /\ result.usage.completionTokens \in Nat

C26_Witness ==
    /\ pc = "done" /\ useOpenAIEndpoint
    /\ Len(wire) = 2
    /\ wire[1] = OpenAIChunk([content |-> Hello], JsNull)
    /\ ~wire[2].success
    /\ rawPrompt = <<[type |-> "Human", text |-> Hello]>>
    /\ out[Len(out)].usage = [promptTokens |-> 2, completionTokens |-> 2]

\* the chunk was parsed, has the shape of a vendor chunk and carries
\* tool-call entries
VendorToolChunk(chunk) ==
    /\ chunk.success
    /\ inflectionStreamChunkSchemaOk(chunk.value)
    /\ "tool_calls" \in DOMAIN chunk.value
    /\ Len(chunk.value.tool_calls) > 0

\* C27: in the vendor format finishReason is "tool-calls" exactly when some
\* chunk processed so far passed validation and carried a non-empty
\* tool_calls, whether or not its arguments decoded, and is "stop"
\* otherwise; so it only ever moves from "stop" to "tool-calls", takes no
\* other value, and the finish event reports it.
C27_VendorFinishReason ==
    (pc \in {"streaming", "done"} /\ ~useOpenAIEndpoint)
        => /\ finishReason =
                 IF \E i \in 1..Len(wire) : VendorToolChunk(wire[i])
                 THEN "tool-calls" ELSE "stop"
           /\ pc = "done" => out[Len(out)].finishReason = finishReason

C27_Witness ==
    /\ pc = "done" /\ ~useOpenAIEndpoint
    /\ Len(wire) = 3
    /\ wire[1] = InflectionToolChunk(1, <<>>, <<WireCall("call_1", ArgsOpen)>>)
    /\ wire[2] = InflectionChunk(1, Hello)
    /\ ~wire[3].success
    /\ out[Len(out)].finishReason = "tool-calls"

IsTextDelta(event) == event.type = "text-delta"

\* the text-delta events of the stream, one per chunk with non-empty text
TextDeltas == SelectSeq(out, IsTextDelta)

\* the length of the text the stream delivered
StreamedLength ==
    LET deltas == TextDeltas
        upTo[i \in 0..Len(deltas)] ==
            IF i = 0 THEN 0 ELSE upTo[i - 1] + Len(deltas[i].textDelta) IN
    upTo[Len(deltas)]

\* C28: the completionTokens of a stream is at least ceil(total / 4), the
\* estimate doGenerate reports for a response with the same text; with
\* n >= 1 non-empty text chunks it exceeds that estimate by at most n - 1,
\* and it equals it when the text came in a single chunk (or there was none).
C28_StreamedEstimateBounds ==
    /\ pc \in {"streaming", "done"}
          => LET n == Len(TextDeltas)
                 whole == Ceil4(StreamedLength) IN
             /\ completionTokens >= whole
             /\ n >= 1 => completionTokens <= whole + (n - 1)
             /\ n <= 1 => completionTokens = whole
    /\ pc = "returned"
          => result.usage.completionTokens = Ceil4(Len(result.text))

C28_Witness ==
    /\ pc = "done" /\ ~useOpenAIEndpoint
    /\ Len(TextDeltas) = 3
    /\ \A i \in 1..3 : TextDeltas[i].textDelta = Hello
    /\ Ceil4(StreamedLength) = 4
    /\ out[Len(out)].usage.completionTokens = 6

\* the entry has some text or carries at least one tool call
HasContent(entry) ==
    \/ entry.text # <<>>
    \/ "tool_calls" \in DOMAIN entry /\ Len(entry.tool_calls) > 0

\* C29: whenever the conversion of a prompt succeeds, on any model id and
\* for messages of any role and parts, every entry of the context has a
\* non-empty text or a non-empty tool_calls.
C29_EveryEntryHasContent ==
    Converted => \A i \in 1..Len(rawPrompt) : HasContent(rawPrompt[i])

\* C30: the body of a streaming call with tools on the tool model has in
\* messages exactly one entry per prompt message, in prompt order, with the
\* role of its message and the text it accumulated; a message without text
\* is sent with an empty content, so messages is never shorter than the
\* vendor context of the same prompt and can be longer.
C30_OneMessagePerPromptMessage ==
    (pc = "streaming" /\ ToolStream)
        => LET messages == request.body.messages IN
           /\ Len(messages) = Len(options.prompt)
           /\ \A i \in 1..Len(messages) :
                 /\ messages[i].role = options.prompt[i].role
                 /\ messages[i].content = AccumulatedText(options.prompt[i])
           /\ Len(messages) >= Len(rawPrompt)

C30_Witness ==
    /\ pc = "streaming" /\ ToolStream
    /\ Len(options.prompt) = 2
    /\ options.prompt[1].role = "user"
    /\ AccumulatedText(options.prompt[1]) = <<>>
    /\ ~HasToolCallPart(options.prompt[1])
    /\ Len(request.body.messages) = 2
    /\ request.body.messages[1] = [role |-> "user", content |-> <<>>]
    /\ request.body.messages[2].content = Hi
    /\ Len(rawPrompt) = 1


====
